---- MODULE Spec2Model ----
(***************************************************************************)
(* A model of kudzu: the thread-local stack of RequestContext objects,     *)
(* RequestContextMiddleware, LoggingMiddleware and the WSGI handlers they  *)
(* wrap.  Each thread runs a chain of calls (frames); the innermost frame  *)
(* is the code that is executing.  Code that is not kudzu's (a test body,  *)
(* a WSGI server, a wrapped application) uses the public API.              *)
(***************************************************************************)
EXTENDS Integers, Sequences, FiniteSets, TLC

\* ---------------------------------------------------------------- bounds
MaxCtx == 2      \* RequestContext objects constructed in one run
MaxStack == 2    \* length of one thread's context stack
MaxReq == 2      \* environ dictionaries (requests and sub-requests) of one run
MaxOps == 2      \* calls of push and pop one run of a handler makes
MaxLen == 3      \* characters of a string given to set_status and set_response_size
MaxHeaders == 2  \* headers of a list given to start_response
MaxCalls == 2    \* calls of start_response one run of a handler makes

Threads == {"A", "B"}
Ctx == 1 .. MaxCtx
None == 0

\* ---------------------------------------------------------------- errors
ErrEmpty == "RuntimeError: RequestContext stack is empty."
ErrWrong == "RuntimeError: Wrong RequestContext at top of stack."
ErrDuplicate ==
    "RuntimeError: RequestContext is already present in environ dictionary. RequestContextMiddleware must be used only once."
ErrMissing ==
    "RuntimeError: RequestContext is not present in environ dictionary. LoggingMiddleware requires RequestContextMiddleware."
HandlerErrors == {"ZeroDivisionError"}
Errors == HandlerErrors \cup {ErrEmpty, ErrWrong, ErrDuplicate, ErrMissing}

\* The applications the server is given: the middlewares applied around a
\* plain WSGI handler, outermost first.
Apps == { <<"RCM">>, <<"LM">>, <<"RCM", "LM">>, <<"RCM", "RCM">> }

VARIABLES
    local,      \* RequestContext._local as each thread sees it: has it a stack attribute, and the list
    nctx,       \* number of RequestContext objects constructed so far (they are 1 .. nctx)
    log_vars,   \* RequestContext._log_vars of each context (the keys a response sets)
    environ,    \* the environ dictionaries made so far: the value of their 'kudzu.context' key
    frames,     \* the call chain of each thread, innermost call last
    sig,        \* what the call that ended last gave the code now running in the thread
    log,        \* the records the logging handler received since the server's last call
    live,       \* history: per thread, the contexts pushed and not yet popped, in push order
    meddled,    \* history: per thread, has a wrapped handler called push or pop itself
    start_time, \* RequestContext._start_time of each context, in milliseconds
    calls,      \* what the server's start_response received since the server's last call:
                \* how many calls, the arguments of the last and how it ended
    snapshot,   \* the mapping the log_vars property returned last
    record,     \* the attributes RequestContextFilter.filter set on the record it saw last
    arg,        \* what a test passes to the code it tests: a string for the parsing
                \* code, an environ for the construction of a context
    alias       \* which dict object that mapping is: the _log_vars of a context, or
                \* None for a dict of its own

vars == <<local, nctx, log_vars, environ, frames, sig, log, live, meddled,
          start_time, calls, snapshot, record, arg, alias>>

\* ------------------------------------------------------------- helpers
Last(s) == s[Len(s)]
Front(s) == SubSeq(s, 1, Len(s) - 1)

\* what a call gave its caller: op is the callable ("app" for a WSGI
\* application), kind how it ended, val the value returned, err the error.
\* History: beneath is, for a response that is produced when it is
\* iterated, the thread's stack at the call of the request's middleware.
NoSig == [op |-> "", kind |-> "none", val |-> None, err |-> "", beneath |-> <<>>]
Returned(op, v) == [op |-> op, kind |-> "return", val |-> v, err |-> "", beneath |-> <<>>]
Raised(op, e) == [op |-> op, kind |-> "raise", val |-> None, err |-> e, beneath |-> <<>>]

\* rv when the application is a generator function: an iterable that runs
\* the body of the application for the environ env when it is iterated
Lazy(env, stack) == [Returned("app", env) EXCEPT !.beneath = stack]

\* s without its last occurrence of c (s itself when c is not in it)
RECURSIVE RemoveLast(_, _)
RemoveLast(s, c) ==
    IF s = <<>> THEN <<>>
    ELSE IF Last(s) = c THEN Front(s)
    ELSE Append(RemoveLast(Front(s), c), Last(s))

\* the arguments of a call start_response(status, response_headers, exc_info):
\* a header is a pair <<name, value>>, exc_info the error being handled
\* ("" when the argument is left out)
Args(status, response_headers, exc_info) ==
    [status |-> status, response_headers |-> response_headers, exc_info |-> exc_info]
NoArgs == Args(<<>>, <<>>, "")

\* the server's start_response before its first call
NoCalls == [count |-> 0, args |-> NoArgs, result |-> NoSig]

\* one object whose attributes all threads share
LocalOf_Global(t) == "A"

\* `_local = threading.local()`: every thread has attributes of its own
LocalOf(t) == t

\* RequestContext._local.stack, made empty on first use (AttributeError)
StackOf(l) == IF l.has THEN l.stack ELSE <<>>
Stack(t) == StackOf(local[LocalOf(t)])

\* the oldest element in place of the newest
TopOf_Bottom(s) == IF s = <<>> THEN None ELSE Head(s)

\* `if not stack: return None` / `return stack[-1]`
TopOf(s) == IF s = <<>> THEN None ELSE Last(s)

\* ---------------------------------------------------------------- strings
\* A Python string is the sequence of its characters.  The strings given to
\* the parsing code are those of at most MaxLen characters over Chars: two
\* digits, a sign, the space, another whitespace character and a letter.
Chars == {"0", "7", "-", " ", "\t", "x"}
Strings == UNION {[1 .. n -> Chars] : n \in 0 .. MaxLen}

\* the characters str.strip() removes, among Chars
Whitespace == {" ", "\t"}
DigitValue ==
    ("0" :> 0) @@ ("1" :> 1) @@ ("2" :> 2) @@ ("3" :> 3) @@ ("4" :> 4) @@
    ("5" :> 5) @@ ("6" :> 6) @@ ("7" :> 7) @@ ("8" :> 8) @@ ("9" :> 9)
DigitChar == <<"0", "1", "2", "3", "4", "5", "6", "7", "8", "9">>

\* the whole status line taken for the token
FirstToken_Whole(s) == s

\* status.split(' ', 1)[0]: what stands before the first space
RECURSIVE FirstToken(_)
FirstToken(s) ==
    IF s = <<>> THEN <<>>
    ELSE IF Head(s) = " " THEN <<>>
    ELSE <<Head(s)>> \o FirstToken(Tail(s))

RECURSIVE LStrip(_)
LStrip(s) ==
    IF s = <<>> THEN <<>>
    ELSE IF Head(s) \in Whitespace THEN LStrip(Tail(s)) ELSE s

RECURSIVE RStrip(_)
RStrip(s) ==
    IF s = <<>> THEN <<>>
    ELSE IF Last(s) \in Whitespace THEN RStrip(Front(s)) ELSE s

\* the digits of a literal once whitespace around it and a sign are removed
Unsigned(s) ==
    LET b == RStrip(LStrip(s))
    IN IF b = <<>> THEN <<>>
       ELSE IF Head(b) \in {"+", "-"} THEN Tail(b) ELSE b

\* does int(s) return (or raise ValueError)
IsInt(s) ==
    LET u == Unsigned(s)
    IN /\ u # <<>>
       /\ \A i \in 1 .. Len(u) : u[i] \in DOMAIN DigitValue

RECURSIVE DigitsValue(_)
DigitsValue(u) ==
    IF u = <<>> THEN 0 ELSE 10 * DigitsValue(Front(u)) + DigitValue[Last(u)]

\* int(s), for a string int accepts
IntValue(s) ==
    IF Head(RStrip(LStrip(s))) = "-" THEN 0 - DigitsValue(Unsigned(s))
    ELSE DigitsValue(Unsigned(s))

RECURSIVE Decimal(_)
Decimal(n) ==
    IF n < 10 THEN <<DigitChar[n + 1]>>
    ELSE Decimal(n \div 10) \o <<DigitChar[(n % 10) + 1]>>

\* '%s' % n and str(n) for an integer n
DecimalString(n) == IF n < 0 THEN <<"-">> \o Decimal(0 - n) ELSE Decimal(n)

\* ------------------------------------------------- RequestContext (fields)
CONTEXT_VARS ==
    {"uri", "method", "user", "addr", "host", "proto", "uagent", "referer",
     "status", "micros", "msecs", "time", "ctime", "rsize"}

\* the fields taken from the environ and from the time of construction
StaticVars ==
    {"uri", "method", "user", "addr", "host", "proto", "uagent", "referer",
     "time", "ctime"}

Dash == <<"-">>
Unparsable == <<"?", "?", "?">>

\* dict.fromkeys(CONTEXT_VARS, '-')
InitialLogVars == [k \in CONTEXT_VARS |-> Dash]

\* environ.get(key, default), an environ being the function of its keys
EnvironGet(e, key, default) == IF key \in DOMAIN e THEN e[key] ELSE default

\* a query string appended whenever the key is there
get_request_uri_AnyQuery(e) ==
    IF "REQUEST_URI" \in DOMAIN e THEN e["REQUEST_URI"]
    ELSE LET parts == EnvironGet(e, "SCRIPT_NAME", <<>>) \o EnvironGet(e, "PATH_INFO", <<>>)
         IN IF "QUERY_STRING" \in DOMAIN e
            THEN parts \o <<"?">> \o e["QUERY_STRING"] ELSE parts

\* _get_request_uri(environ)
get_request_uri(e) ==
    IF "REQUEST_URI" \in DOMAIN e THEN e["REQUEST_URI"]
    ELSE LET parts == EnvironGet(e, "SCRIPT_NAME", <<>>) \o EnvironGet(e, "PATH_INFO", <<>>)
             query == EnvironGet(e, "QUERY_STRING", <<>>)
         IN IF query # <<>> THEN parts \o <<"?">> \o query ELSE parts

\* time.ctime(start): the local time in words, here the seconds in words
CTime(start) == <<"c", "t", "i", "m", "e", " ">> \o DecimalString(start \div 1000)

\* RequestContext._environ_log_vars(environ), the clock (in milliseconds)
\* having shown start at construction
environ_log_vars(e, start) ==
    [k \in CONTEXT_VARS |->
        CASE k = "uri" -> get_request_uri(e)
          [] k = "method" -> e["REQUEST_METHOD"]
          [] k = "user" -> EnvironGet(e, "REMOTE_USER", Dash)
          [] k = "addr" -> EnvironGet(e, "REMOTE_ADDR", Dash)
          [] k = "host" -> EnvironGet(e, "HTTP_HOST", e["SERVER_NAME"])
          [] k = "proto" -> e["SERVER_PROTOCOL"]
          [] k = "uagent" -> EnvironGet(e, "HTTP_USER_AGENT", Dash)
          [] k = "referer" -> EnvironGet(e, "HTTP_REFERER", Dash)
          [] k = "time" -> DecimalString(start \div 1000)
          [] k = "ctime" -> CTime(start)
          [] OTHER -> Dash]

\* a property that takes the time field from the clock as well
log_vars_of_Now(lv, start, now) ==
    [k \in CONTEXT_VARS \cup {"epoch"} |->
        CASE k = "micros" -> DecimalString((now - start) * 1000)
          [] k = "msecs" -> DecimalString(now - start)
          [] k = "epoch" -> DecimalString(start \div 1000)
          [] k = "time" -> DecimalString(now \div 1000)
          [] OTHER -> lv[k]]

\* the log_vars property: a copy of _log_vars with the elapsed time and the
\* epoch, the clock showing now
log_vars_of(lv, start, now) ==
    [k \in CONTEXT_VARS \cup {"epoch"} |->
        CASE k = "micros" -> DecimalString((now - start) * 1000)
          [] k = "msecs" -> DecimalString(now - start)
          [] k = "epoch" -> DecimalString(start \div 1000)
          [] OTHER -> lv[k]]

\* the environ EnvironBuilder().get_environ() gives the k-th request: the
\* keys PEP 333 names, every second request with a query string and with
\* the keys a server adds for the client
BuilderEnviron(k) ==
    LET required ==
            [key \in {"REQUEST_METHOD", "SCRIPT_NAME", "PATH_INFO", "QUERY_STRING",
                      "SERVER_NAME", "SERVER_PROTOCOL"} |->
                CASE key = "REQUEST_METHOD" -> <<"G", "E", "T">>
                  [] key = "SCRIPT_NAME" -> <<>>
                  [] key = "PATH_INFO" -> <<"/">> \o DecimalString(k)
                  [] key = "QUERY_STRING" -> IF k % 2 = 0 THEN <<"q">> ELSE <<>>
                  [] key = "SERVER_NAME" -> <<"l", "o", "c", "a", "l", "h", "o", "s", "t">>
                  [] key = "SERVER_PROTOCOL" -> <<"H", "T", "T", "P", "/", "1", ".", "1">>]
        client ==
            [key \in {"REMOTE_ADDR", "HTTP_HOST", "HTTP_USER_AGENT"} |->
                CASE key = "REMOTE_ADDR" -> <<"1", "0", ".", "0", ".", "0", ".", "7">>
                  [] key = "HTTP_HOST" -> <<"e", "x", "a", "m", "p", "l", "e">>
                  [] key = "HTTP_USER_AGENT" -> <<"c", "u", "r", "l">>]
    IN IF k % 2 = 0 THEN required @@ client ELSE required

\* what time.time() shows, in milliseconds, when the k-th context is made
BuilderClock(k) == 1500 * (k - 1)

\* the error int(s) raises, "" when it returns
int_error(s) == IF IsInt(s) THEN "" ELSE "ValueError"

\* what `except ValueError:` lets pass of an error raised in the try block
except_ValueError(e) == IF e = "ValueError" THEN "" ELSE e

\* the status field after set_status(status)
status_field(status) ==
    LET token == FirstToken(status)
    IN IF IsInt(token) THEN DecimalString(IntValue(token)) ELSE Unparsable

\* the value stored as it came
rsize_field_Raw(value) == IF IsInt(value) THEN value ELSE Unparsable

\* the rsize field after set_response_size(value)
rsize_field(value) ==
    IF IsInt(value) THEN DecimalString(IntValue(value)) ELSE Unparsable

Init ==
    /\ local = [t \in Threads |-> [has |-> FALSE, stack |-> <<>>]]
    /\ nctx = 0
    /\ log_vars = [c \in Ctx |-> InitialLogVars]
    /\ environ = <<>>
    /\ frames = [t \in Threads |-> <<>>]
    /\ sig = [t \in Threads |-> NoSig]
    /\ log = <<>>
    /\ live = [t \in Threads |-> <<>>]
    /\ meddled = [t \in Threads |-> FALSE]
    /\ start_time = [c \in Ctx |-> 0]
    /\ calls = NoCalls
    /\ snapshot = <<>>
    /\ record = <<>>
    /\ arg = <<>>
    /\ alias = None

\* thread t runs its own body (a test, the server), not a call
AtRoot(t) == Len(frames[t]) = 0

\* thread t runs a wrapped WSGI handler
InHandler(t) == IF Len(frames[t]) = 0 THEN FALSE ELSE Last(frames[t]).kind = "H"

\* one more call of push or pop made by the handler that runs in thread t
CountOp(fs) ==
    IF Len(fs) = 0 THEN fs ELSE Front(fs) \o <<[Last(fs) EXCEPT !.ops = @ + 1]>>

\* ------------------------------------------------- RequestContext (stack)
\* RequestContext(environ): a new object, on no stack
RequestContext_init(t) ==
    /\ nctx < MaxCtx
    /\ nctx' = nctx + 1
    /\ log_vars' = [log_vars EXCEPT ![nctx + 1] =
            environ_log_vars(BuilderEnviron(nctx + 1), BuilderClock(nctx + 1))]
    /\ start_time' = [start_time EXCEPT ![nctx + 1] = BuilderClock(nctx + 1)]
    /\ sig' = [sig EXCEPT ![t] = Returned("RequestContext", nctx + 1)]
    /\ UNCHANGED <<local, environ, frames, log, live, meddled, calls, snapshot, record, arg, alias>>

\* RequestContext(e) for an environ e the caller made, the clock showing start
RequestContext_environ(t, e, start) ==
    /\ nctx < MaxCtx
    /\ nctx' = nctx + 1
    /\ log_vars' = [log_vars EXCEPT ![nctx + 1] = environ_log_vars(e, start)]
    /\ start_time' = [start_time EXCEPT ![nctx + 1] = start]
    /\ sig' = [sig EXCEPT ![t] = Returned("RequestContext", nctx + 1)]
    /\ UNCHANGED <<local, environ, frames, log, live, meddled, calls, snapshot, record, arg, alias>>

\* a push that leaves out a context the list holds already
push_stack_Once(s, c) == IF \E i \in 1 .. Len(s) : s[i] = c THEN s ELSE Append(s, c)

\* insertion at the bottom in place of the top
push_stack_Bottom(s, c) == <<c>> \o s

\* an __enter__ that does not push
push_stack_Skip(s, c) == s

\* stack.append(self)
push_stack(s, c) == Append(s, c)

push(t, c) ==
    /\ c \in 1 .. nctx
    /\ Len(Stack(t)) < MaxStack
    /\ local' = [local EXCEPT ![LocalOf(t)] = [has |-> TRUE, stack |-> push_stack(Stack(t), c)]]
    /\ sig' = [sig EXCEPT ![t] = Returned("push", None)]
    /\ live' = [live EXCEPT ![t] = Append(@, c)]
    /\ frames' = [frames EXCEPT ![t] = CountOp(@)]
    /\ meddled' = [meddled EXCEPT ![t] = IF InHandler(t) THEN TRUE ELSE @]
    /\ UNCHANGED <<nctx, log_vars, environ, log, start_time, calls, snapshot, record, arg, alias>>

\* pop without its two checks
pop_error_Never(s, c) == ""

\* pop without the check `if stack[-1] is not self`
pop_error_NoTopCheck(s, c) == IF s = <<>> THEN ErrEmpty ELSE ""

\* the error pop raises for this stack and this context, "" when it raises none
pop_error(s, c) ==
    IF s = <<>> THEN ErrEmpty
    ELSE IF Last(s) # c THEN ErrWrong
    ELSE ""

\* a pop that empties the list
pop_stack_Clear(s, c) == IF pop_error(s, c) # "" THEN s ELSE <<>>

\* the list after self.pop(): as it was when pop raises, else stack.pop()
pop_stack(s, c) == IF pop_error(s, c) # "" THEN s ELSE Front(s)

pop(t, c) ==
    /\ c \in 1 .. nctx
    /\ local' = [local EXCEPT ![LocalOf(t)] = [has |-> TRUE, stack |-> pop_stack(Stack(t), c)]]
    /\ sig' = [sig EXCEPT ![t] = IF pop_error(Stack(t), c) # ""
                                   THEN Raised("pop", pop_error(Stack(t), c))
                                   ELSE Returned("pop", None)]
    /\ live' = [live EXCEPT ![t] = IF sig'[t].kind = "raise" THEN @ ELSE RemoveLast(@, c)]
    /\ frames' = [frames EXCEPT ![t] = CountOp(@)]
    /\ meddled' = [meddled EXCEPT ![t] = IF InHandler(t) THEN TRUE ELSE @]
    /\ UNCHANGED <<nctx, log_vars, environ, log, start_time, calls, snapshot, record, arg, alias>>

get(t) ==
    /\ local' = [local EXCEPT ![LocalOf(t)] = [has |-> TRUE, stack |-> Stack(t)]]
    /\ sig' = [sig EXCEPT ![t] = Returned("get", TopOf(Stack(t)))]
    /\ UNCHANGED <<nctx, log_vars, environ, frames, log, live, meddled, start_time, calls, snapshot, record, arg, alias>>

\* a reset that drops the top element only
reset_local_PopTop(l) ==
    [has |-> l.has, stack |-> IF StackOf(l) = <<>> THEN <<>> ELSE Front(StackOf(l))]

\* the thread's attributes after `del RequestContext._local.stack`
reset_local(l) == [has |-> FALSE, stack |-> <<>>]

\* del RequestContext._local.stack, AttributeError ignored
reset(t) ==
    /\ local' = [local EXCEPT ![LocalOf(t)] = reset_local(@)]
    /\ sig' = [sig EXCEPT ![t] = Returned("reset", None)]
    /\ live' = [live EXCEPT ![t] = <<>>]
    /\ UNCHANGED <<nctx, log_vars, environ, frames, log, meddled, start_time, calls, snapshot, record, arg, alias>>

\* ---------------------------------------- RequestContext (response fields)
\* _log_vars after set_status(status) has returned
with_status(lv, status) == [lv EXCEPT !["status"] = status_field(status)]

\* _log_vars after set_response_size(value) has returned
with_response_size(lv, value) == [lv EXCEPT !["rsize"] = rsize_field(value)]

\* the mapping the caller holds, once _log_vars of context c has become lv:
\* it shows lv when it is that very dict
seen(held, which, c, lv) == IF which = c THEN lv @@ held ELSE held

\* context.set_status(status), called by the code that runs in thread t
set_status(t, c, status) ==
    /\ c \in 1 .. nctx
    /\ IF except_ValueError(int_error(FirstToken(status))) # ""
       THEN /\ sig' = [sig EXCEPT ![t] =
                    Raised("set_status", except_ValueError(int_error(FirstToken(status))))]
            /\ UNCHANGED log_vars
       ELSE /\ sig' = [sig EXCEPT ![t] = Returned("set_status", None)]
            /\ log_vars' = [log_vars EXCEPT ![c] = with_status(@, status)]
    /\ snapshot' = seen(snapshot, alias, c, log_vars'[c])
    /\ UNCHANGED <<local, nctx, environ, frames, log, live, meddled,
                   start_time, calls, record, arg, alias>>

\* context.set_response_size(value), called by the code that runs in thread t
set_response_size(t, c, value) ==
    /\ c \in 1 .. nctx
    /\ IF except_ValueError(int_error(value)) # ""
       THEN /\ sig' = [sig EXCEPT ![t] =
                    Raised("set_response_size", except_ValueError(int_error(value)))]
            /\ UNCHANGED log_vars
       ELSE /\ sig' = [sig EXCEPT ![t] = Returned("set_response_size", None)]
            /\ log_vars' = [log_vars EXCEPT ![c] = with_response_size(@, value)]
    /\ snapshot' = seen(snapshot, alias, c, log_vars'[c])
    /\ UNCHANGED <<local, nctx, environ, frames, log, live, meddled,
                   start_time, calls, record, arg, alias>>

\* the property working on _log_vars itself: `rv = self._log_vars`
copied_Same(c) == c

\* `rv = self._log_vars.copy()`: which context's _log_vars the dict rv is;
\* a copy is none's
copied(c) == None

\* context.log_vars, read by the code that runs in thread t when the clock
\* shows now
read_log_vars(t, c, now) ==
    /\ c \in 1 .. nctx
    /\ now >= start_time[c]
    /\ snapshot' = log_vars_of(log_vars[c], start_time[c], now)
    /\ alias' = copied(c)
    /\ log_vars' = IF alias' = c THEN [log_vars EXCEPT ![c] = snapshot'] ELSE log_vars
    /\ sig' = [sig EXCEPT ![t] = Returned("log_vars", None)]
    /\ UNCHANGED <<local, nctx, environ, frames, log, live, meddled,
                   start_time, calls, record, arg>>

\* rv[key] = value: the caller assigns to the mapping log_vars returned
assign_returned(t, key, value) ==
    /\ snapshot # <<>>
    /\ snapshot' = (key :> value) @@ snapshot
    /\ log_vars' = IF alias = None THEN log_vars
                   ELSE [log_vars EXCEPT ![alias] = snapshot']
    /\ sig' = [sig EXCEPT ![t] = NoSig]
    /\ UNCHANGED <<local, nctx, environ, frames, log, live, meddled,
                   start_time, calls, record, arg, alias>>

\* ------------------------------------------------------------ WSGI calls
\* A call of app(environ, start_response) in thread t is a new innermost
\* frame: app lists the middlewares still to be entered, start_response the
\* contexts whose wrappers stand before the caller's callback.  A handler's
\* frame counts the pushes and pops the handler made (ops) and notes whether
\* it made a sub-request (called), counts its calls of start_response
\* (responded) and keeps the arguments of the last (response).  History:
\* entry is the thread's stack at the call, mark the place in the log of a
\* LoggingMiddleware call's request record.
KindOf(app) == IF app = <<>> THEN "H" ELSE Head(app)

Frame(app, env, start_response, entry) ==
    [kind |-> KindOf(app), app |-> IF app = <<>> THEN <<>> ELSE Tail(app),
     env |-> env, ctx |-> None, pc |-> "start",
     start_response |-> start_response, entry |-> entry, mark |-> 0,
     ops |-> 0, called |-> FALSE, responded |-> 0, response |-> NoArgs]

\* the server calls an application: run_app(app) with a new environ, once,
\* or again with an environ that exists
server_call(t, app, env) ==
    /\ AtRoot(t)
    /\ env \in 1 .. Len(environ) + 1
    /\ env <= MaxReq
    /\ (env > Len(environ)) => (Len(environ) = 0)
    /\ environ' = IF env > Len(environ) THEN Append(environ, None) ELSE environ
    /\ frames' = [frames EXCEPT ![t] = <<Frame(app, env, <<>>, Stack(t))>>]
    /\ sig' = [sig EXCEPT ![t] = NoSig]
    /\ log' = <<>>
    /\ calls' = NoCalls
    /\ UNCHANGED <<local, nctx, log_vars, live, meddled, start_time, snapshot, record, arg, alias>>

\* a handler calls a wrapped application with a new environ (a sub-request)
handler_call(t, app) ==
    /\ InHandler(t)
    /\ ~Last(frames[t]).called
    /\ Len(environ) < MaxReq
    /\ environ' = Append(environ, None)
    /\ frames' = [frames EXCEPT ![t] =
            Append(Front(@) \o <<[Last(@) EXCEPT !.called = TRUE]>>,
                   Frame(app, Len(environ) + 1, Last(@).start_response, Stack(t)))]
    /\ sig' = [sig EXCEPT ![t] = NoSig]
    /\ UNCHANGED <<local, nctx, log_vars, log, live, meddled, start_time, calls, snapshot, record, arg, alias>>

\* ------------------------------------------------ RequestContextMiddleware
\* a middleware that does not look for the key
already_present_Never(e) == FALSE

\* `if 'kudzu.context' in environ:`
already_present(e) == e # None

\* a middleware that leaves the environ as it got it
set_context_Skip(e, context) == e

\* the value of the key after `environ['kudzu.context'] = RequestContext(environ)`
set_context(e, context) == context

\* __call__ up to the call of self.app: the check, the new context stored
\* in environ, the wrapped start_response, __enter__ (push), self.app(...)
RequestContextMiddleware_call(t) ==
    /\ Len(frames[t]) > 0
    /\ LET f == Last(frames[t]) IN
       /\ f.kind = "RCM"
       /\ f.pc = "start"
       /\ IF already_present(environ[f.env])
          THEN /\ frames' = [frames EXCEPT ![t] = Front(@)]
               /\ sig' = [sig EXCEPT ![t] = Raised("app", ErrDuplicate)]
               /\ UNCHANGED <<local, nctx, log_vars, environ, log, live, meddled, start_time, calls, snapshot, record, arg, alias>>
          ELSE /\ nctx < MaxCtx
               /\ Len(Stack(t)) < MaxStack
               /\ LET context == nctx + 1
                      stack == push_stack(Stack(t), context)
                  IN /\ nctx' = context
                     /\ log_vars' = [log_vars EXCEPT ![context] =
                            environ_log_vars(BuilderEnviron(f.env), BuilderClock(context))]
                     /\ start_time' = [start_time EXCEPT ![context] = BuilderClock(context)]
                     /\ environ' = [environ EXCEPT ![f.env] = set_context(@, context)]
                     /\ local' = [local EXCEPT ![LocalOf(t)] = [has |-> TRUE, stack |-> stack]]
                     /\ frames' = [frames EXCEPT ![t] =
                            Append(Front(@) \o <<[f EXCEPT !.pc = "wait", !.ctx = context]>>,
                                   Frame(f.app, f.env,
                                         Append(f.start_response, context), stack))]
                     /\ sig' = [sig EXCEPT ![t] = NoSig]
                     /\ live' = [live EXCEPT ![t] = Append(@, context)]
                     /\ UNCHANGED <<log, meddled, calls, snapshot, record, arg, alias>>

\* an __exit__ that returns true: the error of the body is swallowed
with_exit_Swallow(s, stack, context) ==
    IF s.kind = "raise" THEN Returned("app", None) ELSE s

\* an __exit__ whose error does not replace the error of the body
with_exit_FirstError(s, stack, context) ==
    IF s.kind = "raise" THEN s
    ELSE IF pop_error(stack, context) # "" THEN Raised("app", pop_error(stack, context))
    ELSE s

\* what leaves `with context:` when the body ended with s and __exit__ ran
\* self.pop() on stack: pop's error if it raises one, else s
with_exit(s, stack, context) ==
    IF pop_error(stack, context) # "" THEN Raised("app", pop_error(stack, context)) ELSE s

\* a pop after `rv = self.app(...)` in place of `with`: skipped on an error
with_exit_stack_OnReturnOnly(s, stack, context) ==
    IF s.kind = "raise" THEN stack ELSE pop_stack(stack, context)

\* a middleware that pops when the response has been consumed: not at the
\* return of an iterable that has not run yet
with_exit_stack_WhenConsumed(s, stack, context) ==
    IF s.kind = "return" /\ s.val # None THEN stack ELSE pop_stack(stack, context)

\* the thread's stack after `with context:` is left: __exit__ runs
\* self.pop() whether the body returned or raised
with_exit_stack(s, stack, context) == pop_stack(stack, context)

\* a middleware that deletes the key it added when the call is over
exit_environ_Removed(e, context) == None

\* the value of the key when __call__ is left: no statement after
\* `environ['kudzu.context'] = ...` assigns to environ or deletes from it
exit_environ(e, context) == e

\* self.app has returned or raised: __exit__ (pop), then `return rv`, or
\* the error goes on to the caller
RequestContextMiddleware_exit(t) ==
    /\ Len(frames[t]) > 0
    /\ LET f == Last(frames[t]) IN
       /\ f.kind = "RCM"
       /\ f.pc = "wait"
       /\ local' = [local EXCEPT ![LocalOf(t)] =
               [has |-> TRUE, stack |-> with_exit_stack(sig[t], Stack(t), f.ctx)]]
       /\ sig' = [sig EXCEPT ![t] = with_exit(sig[t], Stack(t), f.ctx)]
       /\ frames' = [frames EXCEPT ![t] = Front(@)]
       /\ live' = [live EXCEPT ![t] =
               IF Stack(t)' = Stack(t) THEN @ ELSE RemoveLast(@, f.ctx)]
       /\ environ' = [environ EXCEPT ![f.env] = exit_environ(@, f.ctx)]
       /\ UNCHANGED <<nctx, log_vars, log, meddled, start_time, calls, snapshot, record, arg, alias>>

\* ------------------------------------------------ start_response_wrapper
LowerChar ==
    [A |-> "a", B |-> "b", C |-> "c", D |-> "d", E |-> "e", F |-> "f", G |-> "g", H |-> "h", I |-> "i",
     J |-> "j", K |-> "k", L |-> "l", M |-> "m", N |-> "n", O |-> "o", P |-> "p", Q |-> "q", R |-> "r",
     S |-> "s", T |-> "t", U |-> "u", V |-> "v", W |-> "w", X |-> "x", Y |-> "y", Z |-> "z"]

\* name.lower()
Lower(name) ==
    [i \in 1 .. Len(name) |->
        IF name[i] \in DOMAIN LowerChar THEN LowerChar[name[i]] ELSE name[i]]

ContentLength == <<"c", "o", "n", "t", "e", "n", "t", "-", "l", "e", "n", "g", "t", "h">>

\* the name compared as it came
is_content_length_Exact(name) == name = ContentLength

\* `name.lower() == 'content-length'`
is_content_length(name) == Lower(name) = ContentLength

\* the last header of that name taken: a loop without `break`
RECURSIVE first_length_NoBreak(_)
first_length_NoBreak(response_headers) ==
    IF response_headers = <<>> THEN <<>>
    ELSE IF is_content_length(Last(response_headers)[1]) THEN <<Last(response_headers)[2]>>
    ELSE first_length_NoBreak(Front(response_headers))

\* the values the loop `for name, value in response_headers` gives
\* set_response_size: that of the header at which it breaks, or none
RECURSIVE first_length(_)
first_length(response_headers) ==
    IF response_headers = <<>> THEN <<>>
    ELSE IF is_content_length(Head(response_headers)[1]) THEN <<Head(response_headers)[2]>>
    ELSE first_length(Tail(response_headers))

\* the error that leaves the wrapper before it calls start_response, "" if none
wrapper_error(args) ==
    LET status_error == except_ValueError(int_error(FirstToken(args.status)))
        found == first_length(args.response_headers)
    IN IF status_error # "" THEN status_error
       ELSE IF found = <<>> THEN ""
       ELSE except_ValueError(int_error(found[1]))

\* the context's _log_vars when the wrapper calls start_response, or when
\* an error leaves it
wrapper_log_vars(lv, args) ==
    LET status_error == except_ValueError(int_error(FirstToken(args.status)))
        found == first_length(args.response_headers)
    IN IF status_error # "" THEN lv
       ELSE IF found = <<>> THEN with_status(lv, args.status)
       ELSE IF except_ValueError(int_error(found[1])) # "" THEN with_status(lv, args.status)
       ELSE with_response_size(with_status(lv, args.status), found[1])

\* a wrapper that leaves exc_info out of the call
forwarded_NoExcInfo(args) == Args(args.status, args.response_headers, "")

\* the arguments of `start_response(status, response_headers, exc_info)`
forwarded(args) == args

\* the server's start_response, called for the n-th time: it raises the
\* error of exc_info when it has sent the headers already (PEP 333), else
\* it returns its n-th write callable
server_start_response(sent, n, args) ==
    IF args.exc_info # "" /\ sent THEN Raised("start_response", args.exc_info)
    ELSE Returned("start_response", n)

\* ---------------------------------------------------- RequestContextFilter
\* `return True`
True == 1

\* only the keys that log_vars has are set
filter_record_NoDefault(lv, keys) == [key \in keys \cap DOMAIN lv |-> lv[key]]

\* the attributes the loop `for key in self.keys` sets on the record:
\* log_vars.get(key, '-') for each key
filter_record(lv, keys) == [key \in keys |-> EnvironGet(lv, key, Dash)]

\* RequestContextFilter(keys).filter(record), called by the logging handler
\* in thread t when the clock shows now
filter(t, keys, now) ==
    /\ local' = [local EXCEPT ![LocalOf(t)] = [has |-> TRUE, stack |-> Stack(t)]]
    /\ LET context == TopOf(Stack(t))
           lv == IF context # None
                 THEN log_vars_of(log_vars[context], start_time[context], now)
                 ELSE <<>>
       IN record' = filter_record(lv, keys)
    /\ sig' = [sig EXCEPT ![t] = Returned("filter", True)]
    /\ UNCHANGED <<nctx, log_vars, environ, frames, log, live, meddled,
                   start_time, calls, snapshot, arg, alias>>

\* ------------------------------------------------------- LoggingMiddleware
\* a record filled with the fields a context has at construction
Record_Initial(t, level, kind, context, exc_info) ==
    [level |-> level, kind |-> kind, ctx |-> context,
     status |-> Dash, rsize |-> Dash,
     exc_info |-> exc_info, thread |-> t, current |-> TopOf(Stack(t)),
     depth |-> Len(frames[t])]

\* a record as the handler receives it: its level, which format made its
\* message, the context whose log_vars filled it and the values they had,
\* the error attached (exc_info), the thread, the context on top of the
\* thread's stack when it was emitted, and the depth of the emitting call
Record(t, level, kind, context, exc_info) ==
    [level |-> level, kind |-> kind, ctx |-> context,
     status |-> log_vars[context].status, rsize |-> log_vars[context].rsize,
     exc_info |-> exc_info, thread |-> t, current |-> TopOf(Stack(t)),
     depth |-> Len(frames[t])]

\* self.logger.info(self.request_format % context.log_vars)
log_request(t, context) == Record(t, "info", "request", context, "")

\* the response record at error level
log_response_AsError(t, context) == Record(t, "error", "response", context, "")

\* self.logger.info(self.response_format % context.log_vars)
log_response(t, context) == Record(t, "info", "response", context, "")

\* logger.error in place of logger.exception: no error attached
log_exception_NoExcInfo(t, context, exc) == Record(t, "error", "exception", context, "")

\* self.logger.exception(self.exception_format % context.log_vars): an
\* error record with the error being handled attached
log_exception(t, context, exc) == Record(t, "error", "exception", context, exc)

\* the error of `context = environ[CONTEXT_ENVIRON_KEY]`, "" when the key
\* is there: the KeyError is caught and a RuntimeError raised for it
lookup_error_KeyError(e) == IF e = None THEN "KeyError" ELSE ""

lookup_error(e) == IF e = None THEN ErrMissing ELSE ""

\* __call__ up to the call of self.app: environ['kudzu.context'] (KeyError
\* becomes RuntimeError), log_request, self.app(...)
LoggingMiddleware_call(t) ==
    /\ Len(frames[t]) > 0
    /\ LET f == Last(frames[t]) IN
       /\ f.kind = "LM"
       /\ f.pc = "start"
       /\ IF lookup_error(environ[f.env]) # ""
          THEN /\ frames' = [frames EXCEPT ![t] = Front(@)]
               /\ sig' = [sig EXCEPT ![t] = Raised("app", lookup_error(environ[f.env]))]
               /\ UNCHANGED log
          ELSE /\ log' = Append(log, log_request(t, environ[f.env]))
               /\ frames' = [frames EXCEPT ![t] =
                      Append(Front(@) \o <<[f EXCEPT !.pc = "wait", !.ctx = environ[f.env],
                                                       !.mark = Len(log) + 1]>>,
                             Frame(f.app, f.env, f.start_response, Stack(t)))]
               /\ sig' = [sig EXCEPT ![t] = NoSig]
       /\ UNCHANGED <<local, nctx, log_vars, environ, live, meddled, start_time, calls, snapshot, record, arg, alias>>

\* the `else:` branch: self.app returned; log_response, `return rv`
LoggingMiddleware_return(t) ==
    /\ Len(frames[t]) > 0
    /\ LET f == Last(frames[t]) IN
       /\ f.kind = "LM"
       /\ f.pc = "wait"
       /\ sig[t].kind = "return"
       /\ log' = Append(log, log_response(t, f.ctx))
       /\ frames' = [frames EXCEPT ![t] = Front(@)]
       /\ UNCHANGED <<local, nctx, log_vars, environ, sig, live, meddled, start_time, calls, snapshot, record, arg, alias>>

\* the `except:` branch: self.app raised; log_exception, bare `raise`
LoggingMiddleware_except(t) ==
    /\ Len(frames[t]) > 0
    /\ LET f == Last(frames[t]) IN
       /\ f.kind = "LM"
       /\ f.pc = "wait"
       /\ sig[t].kind = "raise"
       /\ log' = Append(log, log_exception(t, f.ctx, sig[t].err))
       /\ frames' = [frames EXCEPT ![t] = Front(@)]
       /\ UNCHANGED <<local, nctx, log_vars, environ, sig, live, meddled, start_time, calls, snapshot, record, arg, alias>>

\* ------------------------------------------------------ the WSGI handler
\* the wrapped application returns its response
handler_return(t) ==
    /\ InHandler(t)
    /\ frames' = [frames EXCEPT ![t] = Front(@)]
    /\ sig' = [sig EXCEPT ![t] = Returned("app", None)]
    /\ UNCHANGED <<local, nctx, log_vars, environ, log, live, meddled, start_time, calls, snapshot, record, arg, alias>>

\* the wrapped application raises e: an error of its own, or the error of
\* the call it made last, which it does not catch
handler_raise(t, e) ==
    /\ InHandler(t)
    /\ IF e \in HandlerErrors THEN TRUE ELSE sig[t].kind = "raise" /\ sig[t].err = e
    /\ frames' = [frames EXCEPT ![t] = Front(@)]
    /\ sig' = [sig EXCEPT ![t] = Raised("app", e)]
    /\ UNCHANGED <<local, nctx, log_vars, environ, log, live, meddled, start_time, calls, snapshot, record, arg, alias>>

\* the stack of the thread at the call of the innermost call of
\* RequestContextMiddleware in the call chain fs
RECURSIVE request_entry(_)
request_entry(fs) ==
    IF Len(fs) = 0 THEN <<>>
    ELSE IF Last(fs).kind = "RCM" THEN Last(fs).entry
    ELSE request_entry(Front(fs))

\* the wrapped application returns an iterable that produces the body when
\* it is iterated: `rv = self.app(...)` is over, nothing of the body has run
handler_return_lazy(t) ==
    /\ InHandler(t)
    /\ frames' = [frames EXCEPT ![t] = Front(@)]
    /\ sig' = [sig EXCEPT ![t] = Lazy(Last(frames[t]).env, request_entry(frames[t]))]
    /\ UNCHANGED <<local, nctx, log_vars, environ, log, live, meddled, start_time, calls, snapshot, record, arg, alias>>

\* thread t runs the body of a response that is being iterated
InBody(t) == IF Len(frames[t]) = 0 THEN FALSE ELSE Last(frames[t]).kind = "body"

\* the caller of the application, the server or a handler that made a
\* sub-request, iterates the rv that __call__ returned: the body starts to
\* run, for the environ of its request and the context stored there
response_iterate(t) ==
    /\ AtRoot(t) \/ InHandler(t)
    /\ sig[t].op = "app"
    /\ sig[t].kind = "return"
    /\ sig[t].val # None
    /\ frames' = [frames EXCEPT ![t] =
            Append(@, [Frame(<<>>, sig[t].val, <<>>, sig[t].beneath)
                          EXCEPT !.kind = "body", !.ctx = environ[sig[t].val]])]
    /\ sig' = [sig EXCEPT ![t] = NoSig]
    /\ UNCHANGED <<local, nctx, log_vars, environ, log, live, meddled, start_time, calls, snapshot, record, arg, alias>>

\* the body is exhausted: the iteration ends
body_return(t) ==
    /\ InBody(t)
    /\ frames' = [frames EXCEPT ![t] = Front(@)]
    /\ sig' = [sig EXCEPT ![t] = Returned("next", None)]
    /\ UNCHANGED <<local, nctx, log_vars, environ, log, live, meddled, start_time, calls, snapshot, record, arg, alias>>

\* the wrapped application calls the start_response it was given: the
\* wrappers of the contexts in the frame's start_response run, innermost
\* first, each before it calls the next; the last calls the server's
handler_start_response(t, status, response_headers, exc_info, sent) ==
    /\ InHandler(t)
    /\ LET f == Last(frames[t])
           args == Args(status, response_headers, exc_info)
           chain == f.start_response
           error == IF chain = <<>> THEN "" ELSE wrapper_error(args)
           failed == error # ""
       IN /\ f.responded < MaxCalls
          /\ frames' = [frames EXCEPT ![t] =
                 Front(@) \o <<[f EXCEPT !.responded = @ + 1, !.response = args]>>]
          /\ log_vars' = [c \in Ctx |->
                 IF \E i \in 1 .. Len(chain) : chain[i] = c /\ (failed => i = Len(chain))
                 THEN wrapper_log_vars(log_vars[c], args)
                 ELSE log_vars[c]]
          /\ IF failed
             THEN /\ sig' = [sig EXCEPT ![t] = Raised("start_response", error)]
                  /\ UNCHANGED calls
             ELSE /\ calls' = [count |-> calls.count + 1,
                               args |-> forwarded(args),
                               result |-> server_start_response(sent, calls.count + 1,
                                                                forwarded(args))]
                  /\ sig' = [sig EXCEPT ![t] = calls'.result]
    /\ UNCHANGED <<local, nctx, environ, log, live, meddled, start_time, snapshot, record, arg, alias>>

\* ------------------------------------------------------- specifications
\* SpecStack: the threads use the stack API directly, in any order and
\* interleaving (what the tests of the stack do).
StackStep(t) ==
    \/ RequestContext_init(t)
    \/ \E c \in Ctx : push(t, c)
    \/ \E c \in Ctx : pop(t, c)
    \/ get(t)
    \/ reset(t)

NextStack == \E t \in Threads : AtRoot(t) /\ StackStep(t)

SpecStack == Init /\ [][NextStack]_vars

\* SpecParse: one context, made from one of the environs at one of the
\* times, is given one of the strings of Strings as status line and as size.
Requests == {BuilderEnviron(k) : k \in 1 .. MaxReq}
Clock == {0, 1500}

InitContext ==
    /\ \E e \in Requests, start \in Clock :
          /\ log_vars = [c \in Ctx |->
                 IF c = 1 THEN environ_log_vars(e, start) ELSE InitialLogVars]
          /\ start_time = [c \in Ctx |-> IF c = 1 THEN start ELSE 0]
    /\ nctx = 1
    /\ local = [t \in Threads |-> [has |-> FALSE, stack |-> <<>>]]
    /\ environ = <<>>
    /\ frames = [t \in Threads |-> <<>>]
    /\ sig = [t \in Threads |-> IF t = "A" THEN Returned("RequestContext", 1) ELSE NoSig]
    /\ log = <<>>
    /\ live = [t \in Threads |-> <<>>]
    /\ meddled = [t \in Threads |-> FALSE]
    /\ calls = NoCalls
    /\ snapshot = <<>>
    /\ record = <<>>
    /\ arg \in Strings
    /\ alias = None

NextParse ==
    \/ \E c \in Ctx : set_status("A", c, arg)
    \/ \E c \in Ctx : set_response_size("A", c, arg)

SpecParse == InitContext /\ [][NextParse]_vars

\* SpecUri: a test builds an environ and makes contexts from it.  Each of
\* the keys REQUEST_URI, SCRIPT_NAME, PATH_INFO and QUERY_STRING is absent,
\* empty or set (a choice is the sequence of the values the key has: none
\* or one).
Choices(value) == { <<>>, << <<>> >>, <<value>> }

\* a mapping with the key when the choice holds a value for it
Entry(key, choice) == IF choice = <<>> THEN <<>> ELSE key :> choice[1]

TestEnviron(uri, script, path, query) ==
    Entry("REQUEST_URI", uri) @@ Entry("SCRIPT_NAME", script) @@
    Entry("PATH_INFO", path) @@ Entry("QUERY_STRING", query) @@
    [key \in {"REQUEST_METHOD", "SERVER_NAME", "SERVER_PROTOCOL"} |-> BuilderEnviron(1)[key]]

TestEnvirons ==
    { TestEnviron(uri, script, path, query) :
        uri \in Choices(<<"/", "u", "?", "v">>),
        script \in Choices(<<"/", "f", "o", "o">>),
        path \in Choices(<<"/", "b", "a", "r">>),
        query \in Choices(<<"b", "a", "z", "=", "1">>) }

InitUri ==
    /\ local = [t \in Threads |-> [has |-> FALSE, stack |-> <<>>]]
    /\ nctx = 0
    /\ log_vars = [c \in Ctx |-> InitialLogVars]
    /\ environ = <<>>
    /\ frames = [t \in Threads |-> <<>>]
    /\ sig = [t \in Threads |-> NoSig]
    /\ log = <<>>
    /\ live = [t \in Threads |-> <<>>]
    /\ meddled = [t \in Threads |-> FALSE]
    /\ start_time = [c \in Ctx |-> 0]
    /\ calls = NoCalls
    /\ snapshot = <<>>
    /\ record = <<>>
    /\ arg \in TestEnvirons
    /\ alias = None

NextUri == \E start \in Clock : RequestContext_environ("A", arg, start)

SpecUri == InitUri /\ [][NextUri]_vars

\* SpecContext: one context is used through its whole API in one thread, in
\* any order: a parsable or an unparsable string as status and size, the
\* stack operations, and log_vars read at two times and later.
Values == { <<"7">>, <<"x">> }
Later == {1500, 2750}

InitContextUse == InitContext /\ arg \in Values

NextContext ==
    \/ \E c \in Ctx : set_status("A", c, arg)
    \/ \E c \in Ctx : set_response_size("A", c, arg)
    \/ \E c \in Ctx : push("A", c)
    \/ \E c \in Ctx : pop("A", c)
    \/ get("A")
    \/ reset("A")
    \/ \E c \in Ctx, now \in Later : read_log_vars("A", c, now)

SpecContext == InitContextUse /\ [][NextContext]_vars

\* SpecSnapshot: the status and the size of one context are set, its
\* log_vars read, and the caller assigns to keys of the mapping it got.
AssignedKeys == {"status", "uri"}
Assigned == <<"!">>

NextSnapshot ==
    \/ \E c \in Ctx : set_status("A", c, arg)
    \/ \E c \in Ctx : set_response_size("A", c, arg)
    \/ \E c \in Ctx, now \in Later : read_log_vars("A", c, now)
    \/ \E key \in AssignedKeys : assign_returned("A", key, Assigned)

SpecSnapshot == InitContextUse /\ [][NextSnapshot]_vars

\* SpecFilter: thread A makes contexts, pushes and pops them, resets its
\* stack and logs records through a handler that has the filter, made with
\* one of three sets of keys (one has a key log_vars lacks); thread B pushes
\* one of the contexts on a stack of its own.
KeySets == { {"uri", "status"}, {"msecs", "epoch", "addr"}, {"method", "levelname"} }

FilterStep(t) ==
    \/ RequestContext_init(t)
    \/ \E c \in Ctx : push(t, c)
    \/ \E c \in Ctx : pop(t, c)
    \/ reset(t)
    \/ \E keys \in KeySets, now \in Later : filter(t, keys, now)

OtherStep(t) == \E c \in Ctx : Stack(t) = <<>> /\ push(t, c)

NextFilter == FilterStep("A") \/ OtherStep("B")

SpecFilter == Init /\ [][NextFilter]_vars

\* Spec: a server thread calls the applications.  The wrapped handler may
\* return, raise, make a sub-request, and push and pop the contexts that exist.
Server == "A"

\* a handler makes MaxOps calls of push and pop at most
HandlerOps(t) == Last(frames[t]).ops < MaxOps

HandlerStep(t) ==
    \/ handler_return(t)
    \/ \E e \in Errors : handler_raise(t, e)
    \/ \E app \in Apps : handler_call(t, app)
    \/ \E c \in Ctx : InHandler(t) /\ HandlerOps(t) /\ push(t, c)
    \/ \E c \in Ctx : InHandler(t) /\ HandlerOps(t) /\ pop(t, c)

MiddlewareStep(t) ==
    \/ \E app \in Apps, env \in 1 .. MaxReq : server_call(t, app, env)
    \/ RequestContextMiddleware_call(t)
    \/ RequestContextMiddleware_exit(t)
    \/ LoggingMiddleware_call(t)
    \/ LoggingMiddleware_return(t)
    \/ LoggingMiddleware_except(t)

Next == MiddlewareStep(Server) \/ HandlerStep(Server)

Spec == Init /\ [][Next]_vars

\* SpecResponse: the server calls RequestContextMiddleware(H) or
\* RequestContextMiddleware(LoggingMiddleware(H)); H calls start_response
\* with a status line and a list of headers, up to MaxCalls times, then
\* returns or raises.
ResponseApps == { <<"RCM">>, <<"RCM", "LM">> }

StatusLines == { <<"2", "0", "0", " ", "O", "K">>, <<"x">> }

Headers ==
    { << <<"C", "o", "n", "t", "e", "n", "t", "-", "t", "y", "p", "e">>, <<"x">> >>,
      << <<"C", "o", "n", "t", "e", "n", "t", "-", "l", "e", "n", "g", "t", "h">>, <<"7">> >>,
      << <<"C", "O", "N", "T", "E", "N", "T", "-", "L", "E", "N", "G", "T", "H">>, <<"x">> >> }

HeaderLists == UNION {[1 .. n -> Headers] : n \in 0 .. MaxHeaders}

NextResponse ==
    \/ \E app \in ResponseApps : server_call(Server, app, 1)
    \/ RequestContextMiddleware_call(Server)
    \/ RequestContextMiddleware_exit(Server)
    \/ LoggingMiddleware_call(Server)
    \/ LoggingMiddleware_return(Server)
    \/ LoggingMiddleware_except(Server)
    \/ handler_return(Server)
    \/ \E e \in HandlerErrors : handler_raise(Server, e)
    \/ \E status \in StatusLines, response_headers \in HeaderLists,
          exc_info \in HandlerErrors \cup {""}, sent \in BOOLEAN :
            /\ (exc_info = "") => ~sent
            /\ handler_start_response(Server, status, response_headers, exc_info, sent)

SpecResponse == Init /\ [][NextResponse]_vars

\* SpecLazy: the server calls RequestContextMiddleware(H) or
\* RequestContextMiddleware(LoggingMiddleware(H)) where H returns an
\* iterable that produces the body when it is iterated, or raises; H may
\* make a sub-request and push and pop contexts.  The caller iterates the
\* response after the call has returned; the body calls get() and logs
\* records that pass a RequestContextFilter.
BodyKeys == {"uri", "status"}

NextLazy ==
    \/ \E app \in ResponseApps : server_call(Server, app, 1)
    \/ RequestContextMiddleware_call(Server)
    \/ RequestContextMiddleware_exit(Server)
    \/ LoggingMiddleware_call(Server)
    \/ LoggingMiddleware_return(Server)
    \/ LoggingMiddleware_except(Server)
    \/ handler_return_lazy(Server)
    \/ \E e \in HandlerErrors : handler_raise(Server, e)
    \/ \E app \in ResponseApps : handler_call(Server, app)
    \/ \E c \in Ctx : InHandler(Server) /\ HandlerOps(Server) /\ push(Server, c)
    \/ \E c \in Ctx : InHandler(Server) /\ HandlerOps(Server) /\ pop(Server, c)
    \/ response_iterate(Server)
    \/ InBody(Server) /\ get(Server)
    \/ \E now \in Later : InBody(Server) /\ filter(Server, BodyKeys, now)
    \/ body_return(Server)

SpecLazy == Init /\ [][NextLazy]_vars

\* ================================================================ claims
\* the context thread t pushed last among those it has not popped, or None
LatestLive(t) == IF Len(live[t]) = 0 THEN None ELSE live[t][Len(live[t])]

Range(s) == {s[i] : i \in 1 .. Len(s)}

\* C3: context.pop() raises a state error exactly when the calling thread's
\* stack is empty or its top is not that context; a rejected pop leaves the
\* stack (and so what get() returns) unchanged; an accepted pop removes
\* exactly the top element.
C3_PopRejectedExactlyWhenNotTop ==
    [][\A t \in Threads, c \in Ctx : pop(t, c) =>
        LET before == Stack(t)
            after == Stack(t)'
            rejected == sig'[t].kind = "raise"
        IN /\ sig'[t].op = "pop"
           /\ rejected <=> (IF Len(before) = 0 THEN TRUE ELSE before[Len(before)] # c)
           /\ rejected => /\ sig'[t].err \in {ErrEmpty, ErrWrong}
                          /\ after = before
           /\ ~rejected => /\ Len(after) = Len(before) - 1
                           /\ before = after \o <<c>>
    ]_vars

\* a pop of a context that is on the stack but not on top was rejected
C3_Witness ==
    \E t \in Threads :
        /\ sig[t].op = "pop"
        /\ sig[t].err = ErrWrong
        /\ Len(Stack(t)) >= 2

\* C4: get() returns the most recently pushed context that is not yet
\* popped, None when there is none; it never raises and never changes the
\* contents of the stack.
C4_GetReturnsLatestLive ==
    [][\A t \in Threads : get(t) =>
        /\ sig'[t].op = "get"
        /\ sig'[t].kind = "return"
        /\ sig'[t].val = LatestLive(t)
        /\ Stack(t)' = Stack(t)
    ]_vars

\* get() returned the later of two different contexts that are both pushed
C4_Witness ==
    \E t \in Threads :
        /\ sig[t].op = "get"
        /\ Len(live[t]) = 2
        /\ live[t][1] # live[t][2]
        /\ sig[t].val = live[t][2]

\* C5 as stated: a context pushed by thread A is never returned by get()
\* in another thread B.
C5_PushedElsewhereNeverReturned ==
    [][\A t \in Threads, u \in Threads : (t # u /\ get(u)) =>
        sig'[u].val \notin Range(live[t])
    ]_vars

\* C5 amended: stacks are per thread.  A step of one thread changes neither
\* the stack of another thread nor what get() returned or returns there;
\* get() in a thread returns only a context this thread has pushed itself,
\* so a context pushed by another thread alone is never returned.
C5_StacksArePerThread ==
    [][\A t \in Threads : StackStep(t) =>
        /\ \A u \in Threads \ {t} :
              /\ local'[u] = local[u]
              /\ sig'[u] = sig[u]
              /\ live'[u] = live[u]
        /\ get(t) =>
              /\ sig'[t].val \in Range(live[t]) \cup {None}
              /\ \A u \in Threads \ {t} :
                    \A c \in Range(live[u]) \ Range(live[t]) : sig'[t].val # c
    ]_vars

\* thread B's get() returned None while thread A has a context pushed, and
\* A's get() returned that context
C5_Witness ==
    \E t \in Threads, u \in Threads :
        /\ t # u
        /\ sig[t].op = "get" /\ sig[t].val # None
        /\ live[t] # <<>>
        /\ sig[u].op = "get" /\ sig[u].val = None
        /\ live[u] = <<>>

\* ------------------------------------------------- claims on the middleware
\* thread t takes a step in which its innermost call, one of `kind` that
\* stands at `pc`, finishes (returns or raises to its caller)
Finishes(t, kind, pc) ==
    /\ Len(frames[t]) > 0
    /\ frames[t][Len(frames[t])].kind = kind
    /\ frames[t][Len(frames[t])].pc = pc
    /\ frames'[t] = SubSeq(frames[t], 1, Len(frames[t]) - 1)

\* the innermost call of thread t
Cur(t) == frames[t][Len(frames[t])]

\* the wrapped application left the stack as it found it: what the
\* middleware found at its call, and on top the context it pushed
Balanced(t) == Stack(t) = Cur(t).entry \o <<Cur(t).ctx>>

\* C1 as stated: whenever a call of RequestContextMiddleware finishes,
\* however the inner application ended, the thread's stack is the stack at
\* the moment of the call.
C1_StackRestoredAlways ==
    [][\A t \in Threads :
        (Finishes(t, "RCM", "start") \/ Finishes(t, "RCM", "wait")) =>
            Stack(t)' = Cur(t).entry
    ]_vars

\* C1 amended: the same, provided the inner application left the stack as
\* it found it (it popped what it pushed and nothing else).  Then the
\* context the middleware pushed is on the stack no more, and get() is None
\* when the stack was empty at the call.
C1_StackRestoredIfBalanced ==
    [][\A t \in Threads :
        /\ Finishes(t, "RCM", "start") => Stack(t)' = Cur(t).entry
        /\ (Finishes(t, "RCM", "wait") /\ Balanced(t)) =>
              /\ Stack(t)' = Cur(t).entry
              /\ Cur(t).ctx \notin Range(Stack(t)')
              /\ Cur(t).entry = <<>> => TopOf(Stack(t)') = None
    ]_vars

\* the outermost call has ended with the application's error, a context
\* was made for it, and the stack is empty
C1_Witness ==
    \E t \in Threads :
        /\ frames[t] = <<>>
        /\ sig[t].kind = "raise"
        /\ sig[t].err \in HandlerErrors
        /\ nctx >= 1
        /\ local[t].has
        /\ local[t].stack = <<>>

\* C2 as stated: when the inner application raises, the caller of
\* RequestContextMiddleware receives that same error, the context popped.
C2_ErrorUnchangedAlways ==
    [][\A t \in Threads :
        (Finishes(t, "RCM", "wait") /\ sig[t].kind = "raise") =>
            /\ sig'[t].kind = "raise"
            /\ sig'[t].err = sig[t].err
            /\ Stack(t) = Stack(t)' \o <<Cur(t).ctx>>
    ]_vars

\* C2 amended: the same, provided the middleware's context is on top of
\* the stack when the error leaves the inner application.
C2_ErrorUnchangedIfOnTop ==
    [][\A t \in Threads :
        (/\ Finishes(t, "RCM", "wait")
         /\ sig[t].kind = "raise"
         /\ TopOf(Stack(t)) = Cur(t).ctx) =>
            /\ sig'[t].kind = "raise"
            /\ sig'[t].err = sig[t].err
            /\ Stack(t) = Stack(t)' \o <<Cur(t).ctx>>
    ]_vars

\* a sub-request has ended with the application's error: the handler that
\* made it holds the error, and the outer context is on top again
C2_Witness ==
    \E t \in Threads :
        /\ Len(frames[t]) = 2
        /\ frames[t][2].kind = "H"
        /\ sig[t].op = "app"
        /\ sig[t].kind = "raise"
        /\ sig[t].err \in HandlerErrors
        /\ nctx = 2
        /\ Stack(t) = <<frames[t][1].ctx>>

\* the step in which thread t enters its innermost call, one of `kind`
Enters(t, kind) ==
    /\ Len(frames[t]) > 0
    /\ frames[t][Len(frames[t])].kind = kind
    /\ frames[t][Len(frames[t])].pc = "start"
    /\ frames'[t] # frames[t]

\* C7: RequestContextMiddleware called with an environ that has the key
\* 'kudzu.context' raises a state error at once: no context is made,
\* nothing is pushed, the key is kept, the inner application is not called.
\* With RequestContextMiddleware(RequestContextMiddleware(app)) app is never
\* called, and the outer call ends with that error and the stack it found.
C7_DuplicateContextRaises ==
    [][\A t \in Threads :
        /\ (Enters(t, "RCM") /\ environ[Cur(t).env] # None) =>
              /\ sig'[t].kind = "raise"
              /\ sig'[t].err = ErrDuplicate
              /\ nctx' = nctx
              /\ local' = local
              /\ environ' = environ
              /\ log' = log
              /\ frames'[t] = SubSeq(frames[t], 1, Len(frames[t]) - 1)
        /\ (Finishes(t, "RCM", "wait") /\ Cur(t).app = <<"RCM">>) =>
              /\ sig[t].err = ErrDuplicate
              /\ sig'[t].err = ErrDuplicate
              /\ Stack(t)' = Cur(t).entry
        /\ \A i \in 1 .. Len(frames'[t]) :
              (frames'[t][i].kind = "H" /\ i > 2) =>
                  ~(frames'[t][i-1].kind = "RCM" /\ frames'[t][i-2].kind = "RCM"
                    /\ frames'[t][i-2].app = <<"RCM">>)
    ]_vars

\* RequestContextMiddleware(RequestContextMiddleware(app)) has ended with
\* the state error; one context was made and the stack is empty
C7_Witness ==
    \E t \in Threads :
        /\ frames[t] = <<>>
        /\ sig[t].kind = "raise"
        /\ sig[t].err = ErrDuplicate
        /\ nctx = 1
        /\ Len(environ) = 1
        /\ local[t].has
        /\ local[t].stack = <<>>

\* C8: LoggingMiddleware called with an environ that has no
\* 'kudzu.context' key raises a state error: the inner application is not
\* called and no record is emitted.
C8_MissingContextRaises ==
    [][\A t \in Threads :
        (Enters(t, "LM") /\ environ[Cur(t).env] = None) =>
            /\ sig'[t].kind = "raise"
            /\ sig'[t].err = ErrMissing
            /\ log' = log
            /\ frames'[t] = SubSeq(frames[t], 1, Len(frames[t]) - 1)
            /\ local' = local /\ nctx' = nctx /\ environ' = environ
    ]_vars

\* LoggingMiddleware(app) called by the server has ended with the state
\* error and the log is empty
C8_Witness ==
    \E t \in Threads :
        /\ frames[t] = <<>>
        /\ sig[t].kind = "raise"
        /\ sig[t].err = ErrMissing
        /\ log = <<>>

\* the records of l from place `from` on that the call at `depth` emitted
RECURSIVE OwnRecords(_, _, _)
OwnRecords(l, from, depth) ==
    IF from > Len(l) THEN <<>>
    ELSE IF l[from].depth = depth
         THEN <<l[from]>> \o OwnRecords(l, from + 1, depth)
         ELSE OwnRecords(l, from + 1, depth)

\* the levels and kinds of a sequence of records
Kinds(rs) == [i \in 1 .. Len(rs) |-> <<rs[i].level, rs[i].kind>>]

\* C9: a call of LoggingMiddleware (under RequestContextMiddleware) whose
\* inner application returns emits exactly two records: an info request
\* record, emitted before the application is entered, and an info response
\* record, emitted after it has returned; it emits no exception record.
C9_RequestThenResponse ==
    [][\A t \in Threads :
        /\ (Enters(t, "LM") /\ environ[Cur(t).env] # None) =>
              /\ Len(log') = Len(log) + 1
              /\ SubSeq(log', 1, Len(log)) = log
              /\ log'[Len(log')].level = "info"
              /\ log'[Len(log')].kind = "request"
              /\ log'[Len(log')].ctx = environ[Cur(t).env]
              /\ Len(frames'[t]) = Len(frames[t]) + 1
              /\ frames'[t][Len(frames'[t])].pc = "start"
        /\ (Finishes(t, "LM", "wait") /\ sig[t].kind = "return") =>
              /\ Kinds(OwnRecords(log, Cur(t).mark, Len(frames[t]))) =
                    << <<"info", "request">> >>
              /\ Kinds(OwnRecords(log', Cur(t).mark, Len(frames[t]))) =
                    << <<"info", "request">>, <<"info", "response">> >>
              /\ Len(log') = Len(log) + 1
              /\ SubSeq(log', 1, Len(log)) = log
              /\ sig'[t] = sig[t]
    ]_vars

\* RequestContextMiddleware(LoggingMiddleware(app)) has returned to the
\* server: the log holds the request and the response record
C9_Witness ==
    \E t \in Threads :
        /\ frames[t] = <<>>
        /\ sig[t].op = "app"
        /\ sig[t].kind = "return"
        /\ Kinds(log) = << <<"info", "request">>, <<"info", "response">> >>

\* the context of the innermost call of RequestContextMiddleware among the
\* first i calls of fs that has entered its inner application, None if none
RECURSIVE EnclosingCtx(_, _)
EnclosingCtx(fs, i) ==
    IF i = 0 THEN None
    ELSE IF fs[i].kind = "RCM" /\ fs[i].pc = "wait" THEN fs[i].ctx
    ELSE EnclosingCtx(fs, i - 1)

\* the context of the invocation that encloses the innermost call of t
OuterCtx(t) == EnclosingCtx(frames[t], Len(frames[t]) - 1)

\* the new context is on top of what the stack held
NewContextOnTop(t) ==
    /\ nctx' = nctx + 1
    /\ nctx' \notin Range(Stack(t))
    /\ Stack(t)' = Stack(t) \o <<nctx'>>
    /\ environ'[Cur(t).env] = nctx'

\* thread t runs, after the step, a handler inside an invocation of
\* RequestContextMiddleware, and the invocation's context is not on top
HandlerSeesOther(t) ==
    /\ Len(frames'[t]) > 0
    /\ frames'[t][Len(frames'[t])].kind = "H"
    /\ EnclosingCtx(frames'[t], Len(frames'[t])) # None
    /\ TopOf(Stack(t)') # EnclosingCtx(frames'[t], Len(frames'[t]))

\* C6 as stated: a sub-request made by a handler that runs inside
\* RequestContextMiddleware pushes a second context on top; while a handler
\* runs, get() returns the context of the invocation it runs in; when the
\* inner invocation finishes, get() returns the outer context again.
C6_NestedAlways ==
    [][\A t \in Threads :
        /\ (Enters(t, "RCM") /\ environ[Cur(t).env] = None /\ OuterCtx(t) # None) =>
              NewContextOnTop(t)
        /\ ~HandlerSeesOther(t)
        /\ (Finishes(t, "RCM", "wait") /\ OuterCtx(t) # None) =>
              TopOf(Stack(t)') = OuterCtx(t)
    ]_vars

\* C6 amended: the second context is pushed on top in every case; get()
\* returns the context of the invocation the running handler is in, and the
\* outer context again once the inner invocation has finished, provided no
\* handler has pushed or popped a context itself.
C6_NestedIfHandlersKeepOff ==
    [][\A t \in Threads :
        /\ (Enters(t, "RCM") /\ environ[Cur(t).env] = None /\ OuterCtx(t) # None) =>
              NewContextOnTop(t)
        /\ ~meddled'[t] => ~HandlerSeesOther(t)
        /\ (Finishes(t, "RCM", "wait") /\ OuterCtx(t) # None /\ ~meddled[t]) =>
              /\ TopOf(Stack(t)') = OuterCtx(t)
              /\ Stack(t) = Stack(t)' \o <<Cur(t).ctx>>
    ]_vars

\* a sub-request has returned to the handler that made it: two contexts
\* were made, and the outer one alone is on the stack
C6_Witness ==
    \E t \in Threads :
        /\ Len(frames[t]) = 2
        /\ frames[t][1].kind = "RCM"
        /\ frames[t][2].kind = "H"
        /\ frames[t][2].called
        /\ sig[t].op = "app"
        /\ sig[t].kind = "return"
        /\ nctx = 2
        /\ ~meddled[t]
        /\ Stack(t) = <<frames[t][1].ctx>>

\* what LoggingMiddleware does when its inner application has raised: one
\* request record before, then one error record with the error attached,
\* no response record, and the same error for its caller
ExceptionLogged(t) ==
    (Finishes(t, "LM", "wait") /\ sig[t].kind = "raise") =>
        /\ Kinds(OwnRecords(log, Cur(t).mark, Len(frames[t]))) =
              << <<"info", "request">> >>
        /\ Kinds(OwnRecords(log', Cur(t).mark, Len(frames[t]))) =
              << <<"info", "request">>, <<"error", "exception">> >>
        /\ Len(log') = Len(log) + 1
        /\ SubSeq(log', 1, Len(log)) = log
        /\ log'[Len(log')].exc_info = sig[t].err
        /\ log'[Len(log')].ctx = Cur(t).ctx
        /\ sig'[t] = sig[t]

\* C10 as stated: in RequestContextMiddleware(LoggingMiddleware(H)) with H
\* raising, the request record and an error record with the error are
\* emitted and no response record; the caller receives the error H raised,
\* and a stack that was empty at the call is empty afterwards.
C10_ExceptionLoggedAlways ==
    [][\A t \in Threads :
        /\ ExceptionLogged(t)
        /\ (Finishes(t, "RCM", "wait") /\ Cur(t).app = <<"LM">> /\ sig[t].kind = "raise") =>
              /\ sig'[t] = sig[t]
              /\ Cur(t).entry = <<>> => Stack(t)' = <<>>
    ]_vars

\* C10 amended: the records are as stated in every case; the caller
\* receives the error H raised and finds the stack as it was at the call
\* (empty if it was empty), provided H left the stack as it found it.
C10_ExceptionLoggedIfBalanced ==
    [][\A t \in Threads :
        /\ ExceptionLogged(t)
        /\ (/\ Finishes(t, "RCM", "wait")
            /\ Cur(t).app = <<"LM">>
            /\ sig[t].kind = "raise"
            /\ Balanced(t)) =>
              /\ sig'[t] = sig[t]
              /\ Stack(t)' = Cur(t).entry
              /\ Cur(t).entry = <<>> => Stack(t)' = <<>>
    ]_vars

\* RequestContextMiddleware(LoggingMiddleware(H)) has ended with the error
\* of H: the log holds the request record and the error record with that
\* error, and the stack is empty
C10_Witness ==
    \E t \in Threads :
        /\ frames[t] = <<>>
        /\ sig[t].op = "app"
        /\ sig[t].kind = "raise"
        /\ sig[t].err \in HandlerErrors
        /\ Kinds(log) = << <<"info", "request">>, <<"error", "exception">> >>
        /\ log[2].exc_info = sig[t].err
        /\ local[t].has
        /\ local[t].stack = <<>>

\* ------------------------------------------------------ claims C11 - C20
\* C20: reset() empties the whole stack of the calling thread whatever its
\* depth and never raises, also when the thread has no stack yet; it leaves
\* the stacks of the other threads as they are; a get() that follows in the
\* thread returns None and a pop() of any context that follows raises the
\* empty-stack error.
C20_ResetEmptiesOwnStack ==
    [][\A t \in Threads :
        /\ reset(t) =>
              /\ sig'[t] = Returned("reset", None)
              /\ Stack(t)' = <<>>
              /\ TopOf(Stack(t)') = None
              /\ \A u \in Threads \ {t} : local'[u] = local[u] /\ Stack(u)' = Stack(u)
        /\ (sig[t].op = "reset" /\ get(t)) => sig'[t] = Returned("get", None)
        /\ \A c \in Ctx : (sig[t].op = "reset" /\ pop(t, c)) =>
              sig'[t] = Raised("pop", ErrEmpty)
    ]_vars

\* a thread has reset its stack, and the other thread still has a stack of
\* two contexts
C20_Witness ==
    \E t \in Threads, u \in Threads :
        /\ t # u
        /\ sig[t].op = "reset"
        /\ ~local[t].has
        /\ Len(Stack(u)) = 2
        /\ live[u] = Stack(u)

\* the place in fs, among the first i calls, of the innermost call of
\* RequestContextMiddleware that has entered its inner application; 0 if none
RECURSIVE EnclosingCall(_, _)
EnclosingCall(fs, i) ==
    IF i = 0 THEN 0
    ELSE IF fs[i].kind = "RCM" /\ fs[i].pc = "wait" THEN i
    ELSE EnclosingCall(fs, i - 1)

\* thread t runs the handler of an invocation of RequestContextMiddleware
\* (the call of the middleware for the handler's own environ)
RunsInvocation(t) ==
    IF InHandler(t)
    THEN IF EnclosingCall(frames[t], Len(frames[t])) = 0 THEN FALSE
         ELSE frames[t][EnclosingCall(frames[t], Len(frames[t]))].env = Cur(t).env
    ELSE FALSE

\* the context of that invocation
InvocationCtx(t) == frames[t][EnclosingCall(frames[t], Len(frames[t]))].ctx

\* c is on the stack s and another context has been pushed above it
NestedAbove(s, c) == c \in Range(s) /\ TopOf(s) # c

\* C19 as stated: while the handler of an invocation of
\* RequestContextMiddleware runs, the context under 'kudzu.context' in its
\* environ is the context get() returns in the thread, provided no nested
\* context is pushed above it.
C19_AmbientIsCurrentUnlessNested ==
    \A t \in Threads :
        (RunsInvocation(t) /\ ~NestedAbove(Stack(t), InvocationCtx(t))) =>
            /\ environ[Cur(t).env] = InvocationCtx(t)
            /\ TopOf(Stack(t)) = environ[Cur(t).env]

\* C19 amended: while the handler runs, the context under 'kudzu.context'
\* is the context the middleware made and pushed for this call; it is the
\* context get() returns in the thread provided no handler has pushed or
\* popped a context itself (a nested invocation made by the handler is
\* over, or the handler it called is the one that runs).
C19_AmbientIsCurrentIfHandlersKeepOff ==
    \A t \in Threads :
        RunsInvocation(t) =>
            /\ environ[Cur(t).env] = InvocationCtx(t)
            /\ ~meddled[t] => TopOf(Stack(t)) = environ[Cur(t).env]
            /\ ~meddled[t] => Stack(t) = Cur(t).entry

\* the handler of a sub-request runs: get() returns the context of the
\* sub-request, which its environ holds, and the outer context is below
C19_Witness ==
    \E t \in Threads :
        /\ RunsInvocation(t)
        /\ ~meddled[t]
        /\ Len(Stack(t)) = 2
        /\ Stack(t)[1] # Stack(t)[2]
        /\ environ[Cur(t).env] = Stack(t)[2]
        /\ environ[frames[t][1].env] = Stack(t)[1]

\* every character of s is in S
AllIn(s, S) == \A i \in 1 .. Len(s) : s[i] \in S

\* s reads as an integer: whitespace, then an optional sign and at least
\* one digit, then whitespace
IsLiteral(s) ==
    \E a \in 0 .. Len(s), b \in 0 .. Len(s) :
        /\ a < b
        /\ AllIn(SubSeq(s, 1, a), Whitespace)
        /\ AllIn(SubSeq(s, b + 1, Len(s)), Whitespace)
        /\ LET m == SubSeq(s, a + 1, b)
               d == IF Head(m) \in {"+", "-"} THEN Tail(m) ELSE m
           IN d # <<>> /\ AllIn(d, DOMAIN DigitValue)

\* the digits of d without leading zeros (one zero is kept)
RECURSIVE DropZeros(_)
DropZeros(d) == IF Len(d) > 1 /\ Head(d) = "0" THEN DropZeros(Tail(d)) ELSE d

IsDigit(ch) == ch \in DOMAIN DigitValue

\* the canonical decimal string of the integer a literal denotes: its digits
\* without leading zeros, after a minus sign if it is negative
CanonicalOf(s) ==
    LET d == DropZeros(SelectSeq(s, IsDigit))
    IN IF "-" \in Range(s) /\ d # <<"0">> THEN <<"-">> \o d ELSE d

\* p is what stands in s before the first space (all of s if it has none)
IsToken(p, s) ==
    /\ " " \notin Range(p)
    /\ IF Len(p) = Len(s) THEN p = s
       ELSE Len(p) < Len(s) /\ SubSeq(s, 1, Len(p) + 1) = p \o <<" ">>

\* the status the claim gives a status line
ExpectedStatus(s) ==
    LET tok == CHOOSE p \in {SubSeq(s, 1, i) : i \in 0 .. Len(s)} : IsToken(p, s)
    IN IF IsLiteral(tok) THEN CanonicalOf(tok) ELSE Unparsable

\* C15: set_status(s) never raises; the status field becomes the canonical
\* decimal string of the integer that the token before the first space
\* denotes, '???' if the token denotes none; nothing else of the context
\* changes; the status of a context is '-' until set_status is called.
C15_SetStatusParsesToken ==
    /\ \A c \in 1 .. nctx : log_vars[c]["status"] = Dash
    /\ [][\A c \in 1 .. nctx :
            /\ \A t \in Threads : set_status(t, c, arg) =>
                  /\ sig'[t] = Returned("set_status", None)
                  /\ log_vars'[c]["status"] = ExpectedStatus(arg)
                  /\ \A k \in CONTEXT_VARS \ {"status"} : log_vars'[c][k] = log_vars[c][k]
            /\ log_vars'[c]["status"] # log_vars[c]["status"] =>
                  \E t \in Threads : set_status(t, c, arg)
       ]_vars

\* set_status has stored a negative number, whitespace before it dropped
C15_Witness ==
    \E c \in 1 .. nctx :
        /\ sig["A"] = Returned("set_status", None)
        /\ arg = <<"\t", "-", "7">>
        /\ log_vars[c]["status"] = <<"-", "7">>

\* the size the claim gives a value
ExpectedSize(v) == IF IsLiteral(v) THEN CanonicalOf(v) ELSE Unparsable

\* C16: set_response_size(v) never raises; rsize becomes the decimal string
\* of the integer v denotes, '???' if v denotes none; the rsize of a context
\* is '-' until set_response_size is called; set_response_size leaves the
\* status field alone and set_status the rsize field.
C16_SetResponseSizeParsesValue ==
    /\ \A c \in 1 .. nctx : log_vars[c]["rsize"] = Dash
    /\ [][\A c \in 1 .. nctx :
            /\ \A t \in Threads : set_response_size(t, c, arg) =>
                  /\ sig'[t] = Returned("set_response_size", None)
                  /\ log_vars'[c]["rsize"] = ExpectedSize(arg)
                  /\ log_vars'[c]["status"] = log_vars[c]["status"]
            /\ \A t \in Threads : set_status(t, c, arg) =>
                  log_vars'[c]["rsize"] = log_vars[c]["rsize"]
            /\ log_vars'[c]["rsize"] # log_vars[c]["rsize"] =>
                  \E t \in Threads : set_response_size(t, c, arg)
       ]_vars

\* set_response_size has stored '???' in a context whose status is a number
C16_Witness ==
    \E c \in 1 .. nctx :
        /\ sig["A"] = Returned("set_response_size", None)
        /\ arg = <<"7", " ", "x">>
        /\ log_vars[c]["rsize"] = Unparsable
        /\ log_vars[c]["status"] = <<"7">>

\* this step is a call of start_response by the handler that runs in thread t
Responds(t) ==
    /\ InHandler(t)
    /\ Len(frames'[t]) = Len(frames[t])
    /\ Last(frames'[t]).responded = Last(frames[t]).responded + 1

\* the context whose wrapper the handler in thread t was given
WrapperCtx(t) == Last(Last(frames[t]).start_response)

\* C12: a call of the wrapped start_response, whatever the status line and
\* the headers, stores the status in the context and calls the original
\* start_response once, with the status, the header list and the exc_info
\* it was given; the caller gets what the original returned, and an error
\* only if the original raised it.
C12_WrapperForwardsOnce ==
    [][\A t \in Threads : Responds(t) =>
          \A args \in {Last(frames'[t]).response} :
             /\ log_vars'[WrapperCtx(t)]["status"] = ExpectedStatus(args.status)
             /\ calls'.count = calls.count + 1
             /\ calls'.args = args
             /\ sig'[t] = calls'.result
             /\ sig'[t].kind = "raise" =>
                   /\ args.exc_info # ""
                   /\ sig'[t].err = args.exc_info
      ]_vars

\* the wrapper has forwarded a call with an unparsable status, an
\* unparsable length and exc_info, and returned the original's write callable
C12_Witness ==
    /\ InHandler(Server)
    /\ calls.count = 1
    /\ calls.args.status = <<"x">>
    /\ calls.args.exc_info = "ZeroDivisionError"
    /\ Len(calls.args.response_headers) = 1
    /\ calls.args.response_headers[1][2] = <<"x">>
    /\ log_vars[WrapperCtx(Server)]["rsize"] = Unparsable
    /\ sig[Server] = Returned("start_response", 1)

\* the other case of each letter of 'content-length'
OtherCase ==
    [c |-> "C", o |-> "O", n |-> "N", t |-> "T", e |-> "E", l |-> "L", g |-> "G", h |-> "H",
     C |-> "c", O |-> "o", N |-> "n", T |-> "t", E |-> "e", L |-> "l", G |-> "g", H |-> "h"]

\* a and b are equal when the case of letters is ignored
SameIgnoringCase(a, b) ==
    /\ Len(a) = Len(b)
    /\ \A i \in 1 .. Len(a) :
          IF a[i] = b[i] THEN TRUE
          ELSE IF b[i] \in DOMAIN OtherCase THEN a[i] = OtherCase[b[i]]
          ELSE FALSE

\* the places of the length headers in a header list
LengthHeaders(hs) ==
    {i \in 1 .. Len(hs) : SameIgnoringCase(hs[i][1], ContentLength)}

\* the first of a set of places
FirstOf(places) == CHOOSE i \in places : \A j \in places : i <= j

\* C17: a call of the wrapped start_response sets rsize from the value of
\* the header named 'content-length' in any letter case, wherever in the
\* list it stands (from the first of them if there are several); a call
\* whose list has no such header leaves rsize as it was.
C17_LengthHeaderAnywhere ==
    [][\A t \in Threads : Responds(t) =>
          \A hs \in {Last(frames'[t]).response.response_headers} :
          \A places \in {LengthHeaders(hs)} :
             IF places = {}
             THEN log_vars'[WrapperCtx(t)]["rsize"] = log_vars[WrapperCtx(t)]["rsize"]
             ELSE log_vars'[WrapperCtx(t)]["rsize"] = ExpectedSize(hs[FirstOf(places)][2])
      ]_vars

\* rsize was set from a 'Content-length' header that stands second
C17_Witness ==
    /\ InHandler(Server)
    /\ calls.count = 1
    /\ Len(calls.args.response_headers) = 2
    /\ LengthHeaders(calls.args.response_headers) = {2}
    /\ calls.args.response_headers[2][1] # ContentLength
    /\ log_vars[WrapperCtx(Server)]["rsize"] = <<"7">>

\* C13 as stated: whatever calls of the wrapped start_response a handler
\* makes, the status of a context is mutated at most once and its rsize at
\* most once: a field that has been assigned keeps its value.
C13_MutatedAtMostOnce ==
    [][\A c \in 1 .. nctx :
          /\ log_vars[c]["status"] # Dash => log_vars'[c]["status"] = log_vars[c]["status"]
          /\ log_vars[c]["rsize"] # Dash => log_vars'[c]["rsize"] = log_vars[c]["rsize"]
      ]_vars

\* C13, amended: each call of the wrapped start_response mutates the status
\* of its context once (to the status of that call) and the rsize at most
\* once (to the length of the first length header of that call); nothing
\* else mutates the two fields.
C13_MutatedOncePerCall ==
    [][\A responders \in {{t \in Threads : Responds(t)}} :
          /\ \A c \in 1 .. nctx :
                (\A t \in responders : c # WrapperCtx(t)) =>
                    /\ log_vars'[c]["status"] = log_vars[c]["status"]
                    /\ log_vars'[c]["rsize"] = log_vars[c]["rsize"]
          /\ \A t \in responders :
                \A c \in {WrapperCtx(t)}, args \in {Last(frames'[t]).response} :
                \A places \in {LengthHeaders(args.response_headers)} :
                   /\ log_vars'[c]["status"] = ExpectedStatus(args.status)
                   /\ log_vars'[c]["rsize"] =
                         IF places = {} THEN log_vars[c]["rsize"]
                         ELSE ExpectedSize(args.response_headers[FirstOf(places)][2])
      ]_vars

\* after a second call, without a length header, the context has the
\* status of the second call and the rsize of the first
C13_Witness ==
    /\ InHandler(Server)
    /\ calls.count = 2
    /\ calls.args.status = <<"x">>
    /\ LengthHeaders(calls.args.response_headers) = {}
    /\ log_vars[WrapperCtx(Server)]["status"] = Unparsable
    /\ log_vars[WrapperCtx(Server)]["rsize"] = <<"7">>

\* C11: in RequestContextMiddleware(LoggingMiddleware(H)) the request
\* record shows status and rsize '-'; the response record shows the status
\* code of the status line H passed to start_response and the value of the
\* length header H gave it, each '-' when H did not call start_response,
\* rsize '-' when H gave no length header.  (When H called more than once,
\* the status is that of the last call.)
C11_RecordsShowResponse ==
    \A j \in 1 .. Len(log) :
        /\ log[j].kind = "request" => (log[j].status = Dash /\ log[j].rsize = Dash)
        /\ log[j].kind = "response" =>
              \A hs \in {calls.args.response_headers} :
              \A places \in {LengthHeaders(hs)} :
                 /\ log[j].status = IF calls.count = 0 THEN Dash
                                    ELSE ExpectedStatus(calls.args.status)
                 /\ IF calls.count = 0 THEN log[j].rsize = Dash
                    ELSE IF places # {}
                    THEN log[j].rsize = ExpectedSize(hs[FirstOf(places)][2])
                    ELSE (calls.count = 1) => (log[j].rsize = Dash)

\* a request record with '-' and '-' is followed by a response record with
\* the status 200 and the size 7 that H gave
C11_Witness ==
    /\ Len(log) = 2
    /\ log[1].kind = "request"
    /\ log[1].status = Dash
    /\ log[2].kind = "response"
    /\ log[2].status = <<"2", "0", "0">>
    /\ log[2].rsize = <<"7">>
    /\ calls.count = 1

\* C14: set_status, set_response_size, push, pop, reset, get and log_vars
\* leave the static fields of a context as they are: the fields themselves,
\* and what any two log_vars snapshots that follow one another report.
C14_StaticFieldsNeverChange ==
    [][\A k \in StaticVars :
          /\ \A c \in 1 .. nctx : log_vars'[c][k] = log_vars[c][k]
          /\ (snapshot # <<>> /\ snapshot' # <<>>) => snapshot'[k] = snapshot[k]
      ]_vars

\* a snapshot taken 2.75 s after the start, after status and size were set
\* and while the context is pushed twice
C14_Witness ==
    /\ snapshot # <<>>
    /\ snapshot["status"] = <<"7">>
    /\ snapshot["rsize"] = <<"7">>
    /\ snapshot["msecs"] = <<"2", "7", "5", "0">>
    /\ snapshot["time"] = <<"0">>
    /\ Stack("A") = <<1, 1>>
    /\ sig["A"] = Returned("log_vars", None)

\* C18: filter returns True for every record and sets, for each of its
\* keys, the attribute to the value log_vars of the context on top of the
\* calling thread's stack has for the key, '-' when that stack is empty or
\* log_vars has no such key; it changes no thread's stack and no context.
C18_FilterInjectsTopContext ==
    [][\A t \in Threads, keys \in KeySets, now \in Later :
          (sig'[t].op = "filter" /\ filter(t, keys, now)) =>
          /\ sig'[t] = Returned("filter", True)
          /\ DOMAIN record' = keys
          /\ \A key \in keys :
                record'[key] =
                    IF Stack(t) = <<>> THEN Dash
                    ELSE IF key \notin CONTEXT_VARS \cup {"epoch"} THEN Dash
                    ELSE log_vars_of(log_vars[Last(Stack(t))],
                                     start_time[Last(Stack(t))], now)[key]
          /\ \A u \in Threads : Stack(u)' = Stack(u)
          /\ log_vars' = log_vars
          /\ start_time' = start_time
      ]_vars

\* thread A, with context 1 under context 2 on its stack while thread B
\* has context 1 on its own, got a record with the uri of context 2
C18_Witness ==
    /\ sig["A"] = Returned("filter", True)
    /\ Stack("A") = <<1, 2>>
    /\ Stack("B") = <<1>>
    /\ DOMAIN record = {"uri", "status"}
    /\ record["uri"] = log_vars[2]["uri"]
    /\ record["uri"] # log_vars[1]["uri"]
    /\ record["status"] = Dash

\* ------------------------------------------------------ claims C21 - C29
\* the value of a key of an environ, the empty string when it is absent
ValueOf(e, key) == IF key \in DOMAIN e THEN e[key] ELSE <<>>

\* C21: without REQUEST_URI the uri field is SCRIPT_NAME followed by
\* PATH_INFO, followed by '?' and QUERY_STRING exactly when the query
\* string is there and not empty; with REQUEST_URI it is that value.
C21_UriReconstructed ==
    \A c \in 1 .. nctx :
        IF "REQUEST_URI" \in DOMAIN arg
        THEN log_vars[c]["uri"] = arg["REQUEST_URI"]
        ELSE \E tail \in { <<>>, <<"?">> \o ValueOf(arg, "QUERY_STRING") } :
                /\ log_vars[c]["uri"] =
                      ValueOf(arg, "SCRIPT_NAME") \o ValueOf(arg, "PATH_INFO") \o tail
                /\ (tail # <<>>) <=> (ValueOf(arg, "QUERY_STRING") # <<>>)

\* a context made from /foo, /bar and baz=1 has the uri /foo/bar?baz=1
C21_Witness ==
    /\ nctx >= 1
    /\ DOMAIN arg = {"SCRIPT_NAME", "PATH_INFO", "QUERY_STRING",
                     "REQUEST_METHOD", "SERVER_NAME", "SERVER_PROTOCOL"}
    /\ log_vars[1]["uri"] =
          <<"/", "f", "o", "o", "/", "b", "a", "r", "?", "b", "a", "z", "=", "1">>

\* C22: a mapping log_vars returns has every key of CONTEXT_VARS, with the
\* values the context has stored; a later set_status or set_response_size
\* leaves the mapping as it was returned; an assignment to the mapping
\* leaves the context, and so what log_vars returns later, as it was.
C22_LogVarsIsSnapshot ==
    [][/\ \A c \in Ctx, now \in Later : read_log_vars("A", c, now) =>
             /\ CONTEXT_VARS \subseteq DOMAIN snapshot'
             /\ \A k \in StaticVars \cup {"status", "rsize"} :
                   snapshot'[k] = log_vars[c][k]
             /\ log_vars' = log_vars
       /\ \A c \in Ctx :
             (set_status("A", c, arg) \/ set_response_size("A", c, arg)) =>
                 snapshot' = snapshot
       /\ \A key \in AssignedKeys : assign_returned("A", key, Assigned) =>
             log_vars' = log_vars
      ]_vars

\* the caller assigned to the status of a mapping it got, and set_status
\* was called afterwards: the mapping has what was assigned, the context 7
C22_Witness ==
    /\ snapshot # <<>>
    /\ snapshot["status"] = Assigned
    /\ snapshot["rsize"] = Dash
    /\ log_vars[1]["status"] = <<"7">>
    /\ log_vars[1]["rsize"] = <<"7">>
    /\ sig["A"].op \in {"set_status", "set_response_size"}

\* the number of copies of c that lie on top of s, one on the other
RECURSIVE CopiesOnTop(_, _)
CopiesOnTop(s, c) ==
    IF s = <<>> THEN 0
    ELSE IF Last(s) # c THEN 0
    ELSE 1 + CopiesOnTop(Front(s), c)

\* C23: push returns and adds the context on top also when the stack holds
\* it already; while k copies of a context lie on top, pop of it returns and
\* removes one, and get() is then the context again when k > 1, else the
\* element below (None when there is none).
C23_PushedAgainPoppedAgain ==
    [][\A t \in Threads, c \in Ctx :
          /\ push(t, c) =>
                /\ sig'[t] = Returned("push", None)
                /\ Stack(t)' = Append(Stack(t), c)
                /\ CopiesOnTop(Stack(t)', c) = CopiesOnTop(Stack(t), c) + 1
          /\ (pop(t, c) /\ CopiesOnTop(Stack(t), c) >= 1) =>
                /\ sig'[t] = Returned("pop", None)
                /\ CopiesOnTop(Stack(t)', c) = CopiesOnTop(Stack(t), c) - 1
                /\ TopOf(Stack(t)') =
                      IF CopiesOnTop(Stack(t), c) > 1 THEN c
                      ELSE IF Len(Stack(t)) = 1 THEN None
                      ELSE Stack(t)[Len(Stack(t)) - 1]
      ]_vars

\* the only context there is was popped and is still on top: it had been
\* pushed twice
C23_Witness ==
    /\ nctx = 1
    /\ sig["A"] = Returned("pop", None)
    /\ Stack("A") = <<1>>

\* the contexts of the calls of RequestContextMiddleware in the call chain
\* fs that have pushed their context and not yet popped it, outermost first
RECURSIVE InProgress(_)
InProgress(fs) ==
    IF Len(fs) = 0 THEN <<>>
    ELSE IF Last(fs).kind = "RCM" /\ Last(fs).pc = "wait"
         THEN Append(InProgress(Front(fs)), Last(fs).ctx)
         ELSE InProgress(Front(fs))

\* C24: as long as no handler has pushed or popped a context itself, a
\* thread's stack is the list of the contexts of the invocations of
\* RequestContextMiddleware in progress in the thread, in invocation order,
\* the innermost on top; so its depth is their number.
C24_StackMirrorsInvocations ==
    \A t \in Threads :
        ~meddled[t] =>
            /\ Stack(t) = InProgress(frames[t])
            /\ Len(Stack(t)) =
                   Cardinality({i \in 1 .. Len(frames[t]) :
                                   frames[t][i].kind = "RCM" /\ frames[t][i].pc = "wait"})

\* a handler runs in an invocation made by the handler of another
\* invocation: two contexts, the inner one on top
C24_Witness ==
    \E t \in Threads :
        /\ ~meddled[t]
        /\ InHandler(t)
        /\ Len(InProgress(frames[t])) = 2
        /\ Stack(t) = <<1, 2>>

\* the inner application of a call of RequestContextMiddleware in thread t
\* has finished, and a context that is not the call's own is on top
WrongOnTop(t) ==
    /\ Stack(t) # <<>>
    /\ TopOf(Stack(t)) # Cur(t).ctx

\* C25 as stated: when the inner application finishes, by returning or by
\* raising, with a context other than the middleware's own on top, the
\* middleware's pop raises the wrong-context error, which the caller
\* receives whatever the application had raised; the stack is left as it
\* was, and the middleware's context is on it.
C25_WrongTopKeepsContext ==
    [][\A t \in Threads :
        (Finishes(t, "RCM", "wait") /\ WrongOnTop(t)) =>
            /\ sig'[t] = Raised("app", ErrWrong)
            /\ Stack(t)' = Stack(t)
            /\ Cur(t).ctx \in Range(Stack(t)')
    ]_vars

\* C25 amended: the same, but the middleware's context is on the stack
\* afterwards only if the application left it there (an application that
\* popped the context leaves the context of an outer call on top).
C25_WrongTopKeepsStack ==
    [][\A t \in Threads :
        (Finishes(t, "RCM", "wait") /\ WrongOnTop(t)) =>
            /\ sig'[t] = Raised("app", ErrWrong)
            /\ Stack(t)' = Stack(t)
            /\ Cur(t).ctx \in Range(Stack(t)) <=> Cur(t).ctx \in Range(Stack(t)')
    ]_vars

\* the server holds the wrong-context error of a call whose application
\* had pushed the context of a finished sub-request and then raised an
\* error of its own, which LoggingMiddleware logged: both contexts are
\* still on the stack
C25_Witness ==
    \E t \in Threads :
        /\ AtRoot(t)
        /\ sig[t] = Raised("app", ErrWrong)
        /\ Stack(t) = <<1, 2>>
        /\ \E i \in 1 .. Len(log) :
              /\ log[i].kind = "exception"
              /\ log[i].ctx = 1
              /\ log[i].exc_info \in HandlerErrors

\* thread t takes a step of the body of a response: the call of op
BodyCalls(t, op) ==
    /\ InBody(t)
    /\ frames'[t] = frames[t]
    /\ sig'[t].op = op

\* every attribute the filter set on the record is '-'
AllDash(r) == \A key \in DOMAIN r : r[key] = Dash

\* C26 as stated: while the body of a response is produced, after the call
\* of RequestContextMiddleware has returned, get() does not return the
\* context of the request; it returns None, and the filter sets '-' for
\* every key, when the stack was empty before the request.
C26_BodyNeverSeesContext ==
    [][\A t \in Threads :
        /\ BodyCalls(t, "get") =>
              /\ sig'[t].val # Cur(t).ctx
              /\ Cur(t).entry = <<>> => sig'[t].val = None
        /\ (BodyCalls(t, "filter") /\ Cur(t).entry = <<>>) => AllDash(record')
    ]_vars

\* C26 amended: the same, provided no handler has pushed or popped a
\* context itself (a handler that pushed its context a second time leaves
\* it on the stack, and the body sees it).
C26_BodySeesNoContextIfHandlersKeepOff ==
    [][\A t \in Threads :
        ~meddled[t] =>
            /\ BodyCalls(t, "get") =>
                  /\ sig'[t].val # Cur(t).ctx
                  /\ Cur(t).entry = <<>> => sig'[t].val = None
            /\ (BodyCalls(t, "filter") /\ Cur(t).entry = <<>>) => AllDash(record')
    ]_vars

\* the server iterates the response of a request whose context exists; a
\* record logged by the body has passed the filter and got '-' for its keys
C26_Witness ==
    \E t \in Threads :
        /\ InBody(t)
        /\ ~meddled[t]
        /\ Cur(t).ctx # None
        /\ Cur(t).entry = <<>>
        /\ sig[t] = Returned("filter", True)
        /\ "uri" \in DOMAIN record
        /\ AllDash(record)

\* thread t emits a record in the step: a call of LoggingMiddleware logs
Emits(t) ==
    /\ Len(log') = Len(log) + 1
    /\ frames'[t] # frames[t]

\* the innermost call of thread t was made by a call of
\* RequestContextMiddleware, with the same environ
CalledByRCM(t) ==
    IF Len(frames[t]) < 2 THEN FALSE
    ELSE /\ frames[t][Len(frames[t]) - 1].kind = "RCM"
         /\ frames[t][Len(frames[t]) - 1].pc = "wait"
         /\ frames[t][Len(frames[t]) - 1].env = Cur(t).env

\* C27: in RequestContextMiddleware(LoggingMiddleware(H)), as long as no
\* handler has pushed or popped a context itself, each record that
\* LoggingMiddleware emits (request, response, exception) is emitted while
\* the context of its request is on top of the thread's stack: the filter,
\* which reads get(), sees the context whose fields made the message, the
\* one stored in the request's environ, never None and never another.
C27_RecordsEmittedUnderOwnContext ==
    [][\A t \in Threads :
        (Emits(t) /\ CalledByRCM(t) /\ ~meddled[t]) =>
            \A r \in {Last(log')} :
                /\ r.thread = t
                /\ r.kind \in {"request", "response", "exception"}
                /\ r.ctx = environ[Cur(t).env]
                /\ r.current # None
                /\ r.current = r.ctx
                /\ TopOf(Stack(t)) = r.ctx
    ]_vars

\* a request whose handler made a sub-request and then raised: the records
\* of the sub-request carry its context, the exception record of the outer
\* request the outer one, and each was emitted with its context on top
C27_Witness ==
    \E t \in Threads :
        /\ ~meddled[t]
        /\ Len(log) = 4
        /\ Kinds(log) = << <<"info", "request">>, <<"info", "request">>,
                           <<"info", "response">>, <<"error", "exception">> >>
        /\ \A i \in 1 .. 4 : log[i].current = log[i].ctx
        /\ log[1].ctx = 1 /\ log[2].ctx = 2 /\ log[3].ctx = 2 /\ log[4].ctx = 1

\* the context under the key of the environ of the innermost call of t
\* belongs to no call of RequestContextMiddleware that is in progress
KeyOfFinished(t) ==
    /\ environ[Cur(t).env] # None
    /\ \A i \in 1 .. Len(frames[t]) :
          ~(frames[t][i].kind = "RCM" /\ frames[t][i].ctx = environ[Cur(t).env])

\* C28: no step removes or changes a 'kudzu.context' key that is set.  When
\* a call of RequestContextMiddleware finishes, with rv or with an error,
\* the key of its environ still holds the context of the call, which the
\* call has popped if the application left it on top.  A later call of the
\* middleware with that environ raises the double-wrap error at once: no
\* context is made, nothing is pushed, the application is not called.
C28_KeyOutlivesInvocation ==
    [][\A t \in Threads :
        /\ \A e \in 1 .. Len(environ) :
              environ[e] # None => environ'[e] = environ[e]
        /\ (Finishes(t, "RCM", "wait") /\ sig[t].kind \in {"return", "raise"}) =>
              /\ Cur(t).ctx # None
              /\ environ'[Cur(t).env] = Cur(t).ctx
              /\ TopOf(Stack(t)) = Cur(t).ctx => Stack(t) = Stack(t)' \o <<Cur(t).ctx>>
        /\ (Enters(t, "RCM") /\ KeyOfFinished(t)) =>
              /\ sig'[t] = Raised("app", ErrDuplicate)
              /\ frames'[t] = Front(frames[t])
              /\ nctx' = nctx
              /\ Stack(t)' = Stack(t)
              /\ environ' = environ
    ]_vars

\* the server has called the middleware again with the environ of a
\* request that was answered: the call raised the double-wrap error, the
\* key holds the context of the first call, which is on no stack
C28_Witness ==
    \E t \in Threads :
        /\ AtRoot(t)
        /\ sig[t] = Raised("app", ErrDuplicate)
        /\ nctx = 1
        /\ environ = <<1>>
        /\ Stack(t) = <<>>
        /\ log_vars[1].status # Dash

\* C29: when thread a has pushed context c and not popped it, and thread b
\* has no push of c outstanding, c.pop() called in b raises a state error
\* in b (empty stack, or wrong top when b's stack holds other contexts);
\* b's stack is as it was, and so is a's: c stays on top of it when it was.
C29_PopOnlyByPushingThread ==
    [][\A a \in Threads, b \in Threads, c \in Ctx :
        (/\ a # b
         /\ c \in Range(live[a])
         /\ c \notin Range(live[b])
         /\ pop(b, c)) =>
            /\ sig'[b] = Raised("pop", IF Stack(b) = <<>> THEN ErrEmpty ELSE ErrWrong)
            /\ Stack(b)' = Stack(b)
            /\ Stack(a)' = Stack(a)
            /\ live'[a] = live[a]
            /\ TopOf(Stack(a)) = c => TopOf(Stack(a)') = c
            /\ sig'[a] = sig[a]
    ]_vars

\* thread B, whose stack holds context 2, called pop of context 1, which
\* thread A has pushed: the call raised the wrong-top error, and context 1
\* is on top of A's stack
C29_Witness ==
    /\ Stack("A") = <<1>>
    /\ Stack("B") = <<2>>
    /\ live["A"] = <<1>>
    /\ live["B"] = <<2>>
    /\ sig["B"] = Raised("pop", ErrWrong)
====
